---- MODULE Spec2Model ----
(***************************************************************************)
(* Request dispatch of helpers.py: make_multiple_requests (batch mode),    *)
(* make_request / get_response (single-request mode) and run_AssetRequest  *)
(* (the asset report orchestrator), each driven by a vendor session that   *)
(* may answer with any event at any time.                                  *)
(*                                                                         *)
(* Strings whose content the code inspects are sequences of one-character  *)
(* strings.  Time is counted in ticks of one poll interval (1000 ms).      *)
(***************************************************************************)
EXTENDS Integers, Sequences, FiniteSets, TLC

\* ------------------------------------------------------------------------
\* Bounds of the model
\* ------------------------------------------------------------------------
MaxReq == 2

MaxRetries == 1

MaxTimeout == 1

MaxDelay == 1

MaxMsgs == 1

MaxPolls == 3

MaxSec == 2

MaxReportLen == 3

MaxStrLen == 3

MaxListLen == 2

MaxRows == 3

MaxCols == 2

MaxFrames == 2

\* ------------------------------------------------------------------------
\* Program constants
\* ------------------------------------------------------------------------
\* session.nextEvent(1000): one poll blocks for at most one tick
PollTicks == 1

\* msg.correlationIds() is empty
NoCid == -1

\* "Limit reached"
LimitReached == <<"L","i","m","i","t"," ","r","e","a","c","h","e","d">>

\* needle in hay  (Python substring test)
Contains(needle, hay) ==
    \E k \in 0..(Len(hay) - Len(needle)) :
        SubSeq(hay, k + 1, k + Len(needle)) = needle

\* ------------------------------------------------------------------------
\* What the session can deliver
\* ------------------------------------------------------------------------
\* "429 Limit reached"
ErrThrottle == <<"4","2","9"," ">> \o LimitReached

\* "Bad id"
ErrOther == <<"B","a","d"," ","i","d">>

ErrorMessages == {ErrThrottle, ErrOther}

\* data["cmpExcelResponse"]["results"]: a list of results, each a list of
\* fields <<name, value>>
ResultLists ==
    { << << << <<"f">>, [t |-> "str", v |-> <<"1">>] >>,
            << <<"g">>, [t |-> "str", v |-> <<"2">>] >> >>,
         << << <<"f">>, [t |-> "str", v |-> <<"3">>] >> >> >>,
      << << << <<"f">>, [t |-> "str", v |-> <<"4">>] >> >> >> }

EventTypes == {"RESPONSE", "PARTIAL_RESPONSE", "REQUEST_STATUS"}

Msg(c, t, b, e, r) ==
    [cid |-> c, mtype |-> t, body |-> b, message |-> e, results |-> r]

\* every message the session may put into an event of a batch whose
\* correlation values are taken from cids
Messages(cids, lists) ==
    {Msg(c, "RequestFailure", "none", <<>>, <<>>) : c \in cids}
    \cup {Msg(c, "cmpResponse", "errorResponse", e, <<>>) :
             c \in cids, e \in ErrorMessages}
    \cup {Msg(c, "cmpResponse", "cmpExcelResponse", <<>>, r) :
             c \in cids, r \in lists}
    \cup {Msg(c, "cmpResponse", "otherJson", <<>>, <<>>) : c \in cids}
    \cup {Msg(c, "cmpResponse", "invalid", <<>>, <<>>) : c \in cids}

\* ------------------------------------------------------------------------
\* Field mappings (Python dicts: insertion-ordered, one value per name)
\* ------------------------------------------------------------------------
HasKey(d, k) == \E p \in 1..Len(d) : d[p][1] = k

\* d[k] = v
Put(d, k, v) ==
    IF HasKey(d, k)
    THEN [p \in 1..Len(d) |-> IF d[p][1] = k THEN <<k, v>> ELSE d[p]]
    ELSE Append(d, <<k, v>>)

RECURSIVE UpdateAll(_, _)
\* output.update({field["name"]: field["value"] for field in fields})
UpdateAll(d, fields) ==
    IF fields = <<>> THEN d
    ELSE UpdateAll(Put(d, Head(fields)[1], Head(fields)[2]), Tail(fields))

RECURSIVE Flatten(_, _)
\* the loop over data["cmpExcelResponse"]["results"]
Flatten(d, results) ==
    IF results = <<>> THEN d
    ELSE Flatten(UpdateAll(d, Head(results)), Tail(results))

\* ------------------------------------------------------------------------
\* Python values: a tag t and a payload v
\* ------------------------------------------------------------------------
PyStr(cs) == [t |-> "str", v |-> cs]

PyList(xs) == [t |-> "list", v |-> xs]

PyInt(k) == [t |-> "int", v |-> k]

PyFloat(cs) == [t |-> "float", v |-> cs]

PyBool(b) == [t |-> "bool", v |-> b]

PyDateTime(cs) == [t |-> "datetime", v |-> cs]

PyNone == [t |-> "None", v |-> <<>>]

\* float("inf") and float("-inf")
PyInf(neg) == [t |-> "float_inf", v |-> <<neg>>]

\* float("nan")
PyNaN == [t |-> "float_nan", v |-> <<>>]

\* the exception a call raises in place of a value
PyRaise(exc) == [t |-> "raise", v |-> <<exc>>]

\* pd.NA
PdNA == [t |-> "NA", v |-> <<>>]

\* the character U+00B2, SUPERSCRIPT TWO: a digit for str.isdigit(), no
\* digit for int() and float()
Sup2 == "sup2"

Digits == <<"0", "1", "2", "3", "4", "5", "6", "7", "8", "9">>

IsDigitChar(c) == \E d \in 1..Len(Digits) : Digits[d] = c

DigitValue(c) == (CHOOSE d \in 1..Len(Digits) : Digits[d] = c) - 1

\* a digit test that never holds, as when the integer check comes after the
\* float check
isdigit_Skipped(cs) == FALSE

\* str.isdigit()
isdigit(cs) ==
    cs # <<>> /\ \A p \in 1..Len(cs) : IsDigitChar(cs[p]) \/ cs[p] = Sup2

\* int(value) accepts a string for which isdigit holds: every character is
\* a decimal digit
int_ok(cs) == \A p \in 1..Len(cs) : IsDigitChar(cs[p])

RECURSIVE IntOf(_)
\* int(value) of a digit-only string
IntOf(cs) ==
    IF cs = <<>> THEN 0
    ELSE 10 * IntOf(SubSeq(cs, 1, Len(cs) - 1)) + DigitValue(cs[Len(cs)])

\* str.lower()
lower(cs) ==
    LET Upper == <<"A","B","C","D","E","F","G","H","I","J","K","L","M",
                   "N","O","P","Q","R","S","T","U","V","W","X","Y","Z">>
        Lower == <<"a","b","c","d","e","f","g","h","i","j","k","l","m",
                   "n","o","p","q","r","s","t","u","v","w","x","y","z">>
    IN [p \in 1..Len(cs) |->
           IF \E u \in 1..Len(Upper) : Upper[u] = cs[p]
           THEN Lower[CHOOSE u \in 1..Len(Upper) : Upper[u] = cs[p]]
           ELSE cs[p]]

\* str.strip(), for the blank character
RECURSIVE strip(_)
strip(cs) ==
    IF cs = <<>> THEN cs
    ELSE IF Head(cs) = " " THEN strip(Tail(cs))
    ELSE IF cs[Len(cs)] = " " THEN strip(SubSeq(cs, 1, Len(cs) - 1))
    ELSE cs

\* ------------------------------------------------------------------------
\* parse_value
\* ------------------------------------------------------------------------
\* a decimal numeral as [ok, unscaled, scale]: the number of its digits and
\* the count of the digits after the point
RECURSIVE Decimal(_, _, _, _)
Decimal(cs, unscaled, scale, seen) ==
    IF cs = <<>> THEN [ok |-> seen.digit, unscaled |-> unscaled, scale |-> scale]
    ELSE IF IsDigitChar(Head(cs))
    THEN Decimal(Tail(cs), 10 * unscaled + DigitValue(Head(cs)),
                 IF seen.point THEN scale + 1 ELSE scale,
                 [seen EXCEPT !.digit = TRUE])
    ELSE IF Head(cs) = "." /\ ~seen.point
    THEN Decimal(Tail(cs), unscaled, scale, [seen EXCEPT !.point = TRUE])
    ELSE [ok |-> FALSE, unscaled |-> 0, scale |-> 0]

RECURSIVE Normal(_, _)
\* the number m * 10^k with m free of trailing zeros
Normal(m, k) ==
    IF m = 0 THEN <<0, 0>>
    ELSE IF m % 10 = 0 THEN Normal(m \div 10, k + 1)
    ELSE <<m, k>>

\* the position of the first e or E of cs, or 0
ExpMark(cs) ==
    IF \E p \in 1..Len(cs) : cs[p] \in {"e", "E"}
    THEN CHOOSE p \in 1..Len(cs) :
            cs[p] \in {"e", "E"} /\ \A q \in 1..(p - 1) : cs[q] \notin {"e", "E"}
    ELSE 0

\* an exponent as [ok, val]: an optional sign and at least one digit
Exponent(cs) ==
    LET neg == cs # <<>> /\ Head(cs) = "-"
        body == IF cs # <<>> /\ Head(cs) \in {"-", "+"} THEN Tail(cs) ELSE cs
    IN IF body # <<>> /\ int_ok(body)
       THEN [ok |-> TRUE, val |-> IF neg THEN 0 - IntOf(body) ELSE IntOf(body)]
       ELSE [ok |-> FALSE, val |-> 0]

\* float(value) for a string: blanks around an optionally signed inf,
\* infinity or nan in any case, or a decimal numeral with an optional
\* exponent.  The float is kept as <<m, k>> for m * 10^k, m free of
\* trailing zeros, equal floats being one value (0.0 and -0.0 are <<0, 0>>).
\* Texts over ASCII characters, the blank and U+00B2 (no underscore, no
\* other white space, no other Unicode digit), with numerals of at most 9
\* digits and exponents of at most 2 digits: the numbers a double holds
\* to the digit.
float_str(cs0) ==
    LET Fail == [ok |-> FALSE, val |-> PyNone]
        \* m * 10^k with the sign
        Signed(neg, nm) ==
            PyFloat(<<IF neg THEN 0 - nm[1] ELSE nm[1], nm[2]>>)
        \* the mantissa: digits with at most one point and at least one
        \* digit
        Mantissa(mant) ==
            IF /\ \A p \in 1..Len(mant) :
                     IsDigitChar(mant[p]) \/ mant[p] = "."
               /\ Cardinality({p \in 1..Len(mant) : mant[p] = "."}) <= 1
               /\ \E p \in 1..Len(mant) : IsDigitChar(mant[p])
            THEN Decimal(mant, 0, 0, [digit |-> FALSE, point |-> FALSE])
            ELSE [ok |-> FALSE, unscaled |-> 0, scale |-> 0]
        Numeral(neg, d, ex) ==
            IF d.ok /\ ex.ok
            THEN [ok |-> TRUE,
                  val |-> Signed(neg, Normal(d.unscaled, ex.val - d.scale))]
            ELSE Fail
        \* the body with its exponent mark at position e, or without one
        Marked(neg, body, e) ==
            Numeral(neg,
                    Mantissa(IF e = 0 THEN body ELSE SubSeq(body, 1, e - 1)),
                    IF e = 0 THEN [ok |-> TRUE, val |-> 0]
                    ELSE Exponent(SubSeq(body, e + 1, Len(body))))
        \* the text after its sign
        Body(neg, body, word) ==
            IF word \in {<<"i","n","f">>, <<"i","n","f","i","n","i","t","y">>}
            THEN [ok |-> TRUE, val |-> PyInf(neg)]
            ELSE IF word = <<"n","a","n">>
            THEN [ok |-> TRUE, val |-> PyNaN]
            ELSE Marked(neg, body, ExpMark(body))
        Unsigned(neg, body) == Body(neg, body, lower(body))
        Stripped(cs) ==
            Unsigned(cs # <<>> /\ Head(cs) = "-",
                     IF cs # <<>> /\ Head(cs) \in {"-", "+"}
                     THEN Tail(cs) ELSE cs)
    IN Stripped(strip(cs0))

\* float(value): a ValueError or TypeError gives ok = FALSE
float(value) ==
    IF value.t = "str" THEN float_str(value.v)
    ELSE IF value.t = "int" THEN [ok |-> TRUE, val |-> PyFloat(Normal(value.v, 0))]
    ELSE IF value.t = "bool"
    THEN [ok |-> TRUE, val |-> PyFloat(<<IF value.v THEN 1 ELSE 0, 0>>)]
    ELSE IF value.t \in {"float", "float_inf", "float_nan"}
    THEN [ok |-> TRUE, val |-> value]
    ELSE [ok |-> FALSE, val |-> PyNone]

\* ------------------------------------------------------------------------
\* json.loads, for texts made of lists, strings without escapes, numbers
\* and the literals true, false, null, NaN, Infinity and -Infinity; blanks
\* between tokens are skipped.  A parse yields [ok, val, rest]; ok is FALSE
\* where json.loads raises.  (A text with a brace, a backslash, a control
\* character or white space other than the blank is outside the modelled
\* texts.)
\* ------------------------------------------------------------------------
JFail == [ok |-> FALSE, val |-> PyNone, rest |-> <<>>]

JOk(x, r) == [ok |-> TRUE, val |-> x, rest |-> r]

RECURSIVE SkipBlanks(_)
SkipBlanks(cs) ==
    IF cs # <<>> /\ Head(cs) = " " THEN SkipBlanks(Tail(cs)) ELSE cs

RECURSIVE JString(_, _)
\* the characters up to the closing quote
JString(acc, cs) ==
    IF cs = <<>> THEN JFail
    ELSE IF Head(cs) = "\"" THEN JOk(PyStr(acc), Tail(cs))
    ELSE JString(Append(acc, Head(cs)), Tail(cs))

\* cs without its first len characters
Drop(cs, len) == SubSeq(cs, len + 1, Len(cs))

\* cs starts with the characters of word
StartsWith(cs, word) ==
    Len(cs) >= Len(word) /\ SubSeq(cs, 1, Len(word)) = word

Max(S) == CHOOSE x \in S : \A y \in S : y <= x

\* the text is a number by the scanner's pattern
\* (-?(?:0|[1-9]\d*))(\.\d+)?([eE][-+]?\d+)?: a numeral of float() without
\* blanks and without a plus sign before it, whose integer part is 0 or
\* starts with another digit, and whose point, if any, has a digit after it
IsJsonNumber(text) ==
    /\ \A p \in 1..Len(text) :
          IsDigitChar(text[p]) \/ text[p] \in {".", "e", "E", "+", "-"}
    /\ \E p \in 1..2 :
          /\ p <= Len(text)
          /\ IsDigitChar(text[p])
          /\ p = 2 => text[1] = "-"
          /\ (text[p] = "0" /\ p < Len(text)) => ~IsDigitChar(text[p + 1])
    /\ \A p \in 1..Len(text) :
          text[p] = "." => p < Len(text) /\ IsDigitChar(text[p + 1])
    /\ float_str(text).ok

\* the number at the head of cs: the longest text the pattern matches, an
\* int when it has neither a fraction nor an exponent, else the float of
\* the text
JNumber(cs) ==
    LET Value(text, digits) ==
            IF \A p \in 1..Len(digits) : IsDigitChar(digits[p])
            THEN PyInt(IF Head(text) = "-" THEN 0 - IntOf(digits)
                       ELSE IntOf(digits))
            ELSE float_str(text).val
        Found(text) ==
            JOk(Value(text, IF Head(text) = "-" THEN Tail(text) ELSE text),
                Drop(cs, Len(text)))
        Longest(lens) ==
            IF lens = {} THEN JFail ELSE Found(SubSeq(cs, 1, Max(lens)))
    IN Longest({len \in 1..Len(cs) : IsJsonNumber(SubSeq(cs, 1, len))})

RECURSIVE JValue(_)
RECURSIVE JItems(_, _)
\* one JSON value at the head of cs
JValue(cs0) ==
    LET cs == SkipBlanks(cs0)
    IN IF cs = <<>> THEN JFail
       ELSE IF Head(cs) = "\"" THEN JString(<<>>, Tail(cs))
       ELSE IF Head(cs) = "["
       THEN LET r == SkipBlanks(Tail(cs))
            IN IF r # <<>> /\ Head(r) = "]" THEN JOk(PyList(<<>>), Tail(r))
               ELSE JItems(<<>>, r)
       ELSE IF StartsWith(cs, <<"n","u","l","l">>)
       THEN JOk(PyNone, Drop(cs, 4))
       ELSE IF StartsWith(cs, <<"t","r","u","e">>)
       THEN JOk(PyBool(TRUE), Drop(cs, 4))
       ELSE IF StartsWith(cs, <<"f","a","l","s","e">>)
       THEN JOk(PyBool(FALSE), Drop(cs, 5))
       ELSE IF StartsWith(cs, <<"N","a","N">>)
       THEN JOk(PyNaN, Drop(cs, 3))
       ELSE IF StartsWith(cs, <<"I","n","f","i","n","i","t","y">>)
       THEN JOk(PyInf(FALSE), Drop(cs, 8))
       ELSE IF StartsWith(cs, <<"-","I","n","f","i","n","i","t","y">>)
       THEN JOk(PyInf(TRUE), Drop(cs, 9))
       ELSE JNumber(cs)

\* the items of a list after its opening bracket, up to the closing one
JItems(acc, cs) ==
    LET x == JValue(cs)
        r == SkipBlanks(x.rest)
    IN IF ~x.ok \/ r = <<>> THEN JFail
       ELSE IF Head(r) = "]" THEN JOk(PyList(Append(acc, x.val)), Tail(r))
       ELSE IF Head(r) = "," THEN JItems(Append(acc, x.val), Tail(r))
       ELSE JFail

\* json.loads(value)
json_loads(cs) ==
    LET x == JValue(cs)
    IN IF x.ok /\ SkipBlanks(x.rest) = <<>> THEN x ELSE JFail

\* the JSON text of a string and of a list of texts
JQuote(cs) == <<"\"">> \o cs \o <<"\"">>

RECURSIVE JJoin(_)
JJoin(texts) ==
    IF texts = <<>> THEN <<>>
    ELSE IF Len(texts) = 1 THEN texts[1]
    ELSE texts[1] \o <<",">> \o JJoin(Tail(texts))

JList(texts) == <<"[">> \o JJoin(texts) \o <<"]">>

is_leap(y) == y % 4 = 0 /\ (y % 100 # 0 \/ y % 400 = 0)

\* the constructor of datetime accepts the date: a year from 1 to 9999, a
\* month and a day of that month
date_ok(y, m, d) ==
    /\ y \in 1..9999
    /\ m \in 1..12
    /\ d >= 1
    /\ d <= (IF m = 2 THEN (IF is_leap(y) THEN 29 ELSE 28)
             ELSE IF m \in {4, 6, 9, 11} THEN 30 ELSE 31)

\* ------------------------------------------------------------------------
\* datetime.fromisoformat, as CPython 3.11 parses: over the UTF-8 bytes of
\* the text, positions counted from 0, the byte after the last one being
\* the terminating NUL.  Only whether the text is accepted is kept: a
\* parsed timestamp stands in the model as PyDateTime of its text.
\* ------------------------------------------------------------------------
RECURSIVE Utf8(_)
\* PyUnicode_AsUTF8AndSize: one byte for an ASCII character, the two bytes
\* C2 and B2 for U+00B2
Utf8(cs) ==
    IF cs = <<>> THEN <<>>
    ELSE (IF Head(cs) = Sup2 THEN <<"C2", "B2">> ELSE <<Head(cs)>>)
            \o Utf8(Tail(cs))

\* the byte at position p; "NUL" is the byte that ends the text
ByteAt(bs, p) == IF p >= 0 /\ p < Len(bs) THEN bs[p + 1] ELSE "NUL"

\* parse_digits(ptr, var, num_digits) as [ok, p, val]: the position after
\* the digits and their value, ok = FALSE for the NULL it returns
parse_digits(bs, p, num_digits) ==
    IF \A q \in p..(p + num_digits - 1) : IsDigitChar(ByteAt(bs, q))
    THEN [ok |-> TRUE, p |-> p + num_digits,
          val |-> IntOf([q \in 1..num_digits |-> ByteAt(bs, p + q - 1)])]
    ELSE [ok |-> FALSE, p |-> p, val |-> 0]

RECURSIVE DigitsEnd(_, _, _)
\* the first position from idx on, below len, that holds no digit, or len
DigitsEnd(bs, idx, len) ==
    IF idx < len /\ IsDigitChar(ByteAt(bs, idx))
    THEN DigitsEnd(bs, idx + 1, len) ELSE idx

\* _find_isoformat_datetime_separator(dtstr, len)
find_isoformat_datetime_separator(bs, len) ==
    IF len = 7 THEN 7
    ELSE IF ByteAt(bs, 4) = "-"
    THEN IF ByteAt(bs, 5) = "W"
         THEN IF len < 8 THEN -1
              ELSE IF len > 8 /\ ByteAt(bs, 8) = "-"
              THEN IF len = 9 THEN -1
                   ELSE IF len > 10 /\ IsDigitChar(ByteAt(bs, 10)) THEN 8
                   ELSE 10
              ELSE 8
         ELSE 10
    ELSE IF ByteAt(bs, 4) = "W"
    THEN LET idx == DigitsEnd(bs, 7, len)
         IN IF idx < 9 THEN idx
            ELSE IF idx % 2 = 0 THEN 7 ELSE 8
    ELSE 8

\* ymd_to_ord(year, month, day), for a year from 1 on: the days before the
\* year, the days before the month and the day
ymd_to_ord(y, m, d) ==
    (y - 1) * 365 + (y - 1) \div 4 - (y - 1) \div 100 + (y - 1) \div 400
       + <<0, 31, 59, 90, 120, 151, 181, 212, 243, 273, 304, 334>>[m]
       + (IF m > 2 /\ is_leap(y) THEN 1 ELSE 0)
       + d

\* iso_week1_monday(year): the ordinal of the Monday of ISO week 1
iso_week1_monday(y) ==
    LET first_day == ymd_to_ord(y, 1, 1)
        first_weekday == (first_day + 6) % 7
        week1_monday == first_day - first_weekday
    IN IF first_weekday > 3 THEN week1_monday + 7 ELSE week1_monday

\* iso_to_ymd(iso_year, iso_week, iso_day) followed by the constructor's
\* check of the date it computes: the week and the day are in range and the
\* day lies in the years 1 to 9999, 3652059 being the ordinal of
\* 9999-12-31 (for the year 0 every day of every week lies before the
\* year 1)
iso_ok(iso_year, iso_week, iso_day) ==
    /\ iso_year \in 1..9999
    /\ \/ iso_week \in 1..52
       \/ /\ iso_week = 53
          \* weekday(iso_year, 1, 1), 0 for Monday
          /\ LET first_weekday == (ymd_to_ord(iso_year, 1, 1) + 6) % 7
             IN \/ first_weekday = 3
                \/ first_weekday = 2 /\ is_leap(iso_year)
    /\ iso_day \in 1..7
    /\ iso_week1_monday(iso_year) + (iso_week - 1) * 7 + iso_day - 1
          \in 1..3652059

\* parse_isoformat_date(dtstr, len, ...) with the check of the date by the
\* constructor: TRUE when the date part is parsed and is a date.  len is
\* the separator position, -1 standing for the huge unsigned number the
\* code turns it into.
parse_isoformat_date(bs, len) ==
    LET year == parse_digits(bs, 0, 4)
        uses_separator == ByteAt(bs, year.p) = "-"
        p1 == IF uses_separator THEN year.p + 1 ELSE year.p
        week == parse_digits(bs, p1 + 1, 2)
        has_day == len < 0 \/ week.p < len
        p2 == IF uses_separator THEN week.p + 1 ELSE week.p
        iso_day == parse_digits(bs, p2, 1)
        month == parse_digits(bs, p1, 2)
        p3 == IF uses_separator THEN month.p + 1 ELSE month.p
        day == parse_digits(bs, p3, 2)
    IN /\ year.ok
       /\ IF ByteAt(bs, p1) = "W"
          THEN /\ week.ok
               /\ has_day =>
                     /\ uses_separator => ByteAt(bs, week.p) = "-"
                     /\ iso_day.ok
               /\ iso_ok(year.val, week.val,
                         IF has_day THEN iso_day.val ELSE 1)
          ELSE /\ month.ok
               /\ uses_separator => ByteAt(bs, month.p) = "-"
               /\ day.ok
               /\ date_ok(year.val, month.val, day.val)

\* a result of parse_hh_mm_ss_ff: the return code and hour, minute, second
\* (the microseconds enter no check and are not kept)
TimeResult(rv, vals) ==
    [rv |-> rv,
     vals |-> [i \in 1..3 |-> IF i <= Len(vals) THEN vals[i] ELSE 0]]

\* the fractional components of parse_hh_mm_ss_ff, from position p
Fraction(bs, p, p_end, vals) ==
    LET len_remains == p_end - p
        to_parse == IF len_remains >= 6 THEN 6 ELSE len_remains
        microsecond == parse_digits(bs, p, to_parse)
        q == DigitsEnd(bs, microsecond.p, Len(bs))
    IN IF ~microsecond.ok THEN TimeResult(-3, vals)
       ELSE TimeResult(IF ByteAt(bs, q) # "NUL" THEN 1 ELSE 0, vals)

RECURSIVE TimeLoop(_, _, _, _, _, _)
\* iteration i of the loop of parse_hh_mm_ss_ff over [HH[:?MM[:?SS]]]
TimeLoop(bs, p0, p_end, i, has_separator0, vals0) ==
    LET d == parse_digits(bs, p0, 2)
        c == ByteAt(bs, d.p)
        p == d.p + 1
        has_separator == IF i = 0 THEN c = ":" ELSE has_separator0
        vals == Append(vals0, d.val)
    IN IF ~d.ok THEN TimeResult(-3, vals0)
       ELSE IF p >= p_end THEN TimeResult(IF c # "NUL" THEN 1 ELSE 0, vals)
       ELSE IF has_separator /\ c = ":"
       THEN IF i = 2 THEN Fraction(bs, p, p_end, vals)
            ELSE TimeLoop(bs, p, p_end, i + 1, has_separator, vals)
       ELSE IF c \in {".", ","} THEN Fraction(bs, p, p_end, vals)
       ELSE IF ~has_separator
       THEN IF i = 2 THEN Fraction(bs, p - 1, p_end, vals)
            ELSE TimeLoop(bs, p - 1, p_end, i + 1, has_separator, vals)
       ELSE TimeResult(-4, vals)

\* parse_hh_mm_ss_ff(tstr, tstr_end, ...)
parse_hh_mm_ss_ff(bs, tstr, tstr_end) ==
    TimeLoop(bs, tstr, tstr_end, 0, TRUE, <<>>)

RECURSIVE TzinfoPos(_, _, _)
\* the do-while loop of parse_isoformat_time: the position of the first Z,
\* + or - from p on, or the end
TzinfoPos(bs, p, p_end) ==
    IF ByteAt(bs, p) \in {"Z", "+", "-"} THEN p
    ELSE IF p + 1 < p_end THEN TzinfoPos(bs, p + 1, p_end)
    ELSE p + 1

\* parse_isoformat_time(dtstr, dtlen, ...) for the time from position p on,
\* as [rv, vals, tzoffset]: rv is 0 without an offset, 1 with one and
\* negative for a failure; tzoffset in seconds
parse_isoformat_time(bs, p) ==
    LET p_end == Len(bs)
        tzinfo_pos == TzinfoPos(bs, p, p_end)
        t == parse_hh_mm_ss_ff(bs, p, tzinfo_pos)
        tz == parse_hh_mm_ss_ff(bs, tzinfo_pos + 1, p_end)
        tzsign == IF ByteAt(bs, tzinfo_pos) = "-" THEN -1 ELSE 1
    IN IF t.rv < 0 THEN [rv |-> t.rv, vals |-> t.vals, tzoffset |-> 0]
       ELSE IF tzinfo_pos = p_end
       THEN [rv |-> IF t.rv = 1 THEN -5 ELSE 0, vals |-> t.vals, tzoffset |-> 0]
       ELSE IF ByteAt(bs, tzinfo_pos) = "Z"
       THEN [rv |-> IF ByteAt(bs, tzinfo_pos + 1) # "NUL" THEN -5 ELSE 1,
             vals |-> t.vals, tzoffset |-> 0]
       ELSE [rv |-> IF tz.rv # 0 THEN -5 ELSE 1, vals |-> t.vals,
             tzoffset |-> tzsign * (tz.vals[1] * 3600 + tz.vals[2] * 60
                                       + tz.vals[3])]

\* datetime.fromisoformat(value) returns a datetime; FALSE where it raises
\* ValueError.  Texts over ASCII characters and U+00B2 (no surrogate, no
\* NUL, no character of three or four bytes); a text is never too long.
fromisoformat_ok(cs) ==
    LET bs == Utf8(cs)
        len == Len(bs)
        separator_location == find_isoformat_datetime_separator(bs, len)
        has_time == len > separator_location
        \* the separator is one character: of two bytes when it is U+00B2
        p == separator_location
                + (IF ByteAt(bs, separator_location) = "C2" THEN 2 ELSE 1)
        time == IF has_time THEN parse_isoformat_time(bs, p)
                ELSE [rv |-> 0, vals |-> <<0, 0, 0>>, tzoffset |-> 0]
    IN /\ len >= 7
       /\ parse_isoformat_date(bs, separator_location)
       /\ time.rv >= 0
       \* timezone(timedelta(seconds=tzoffset, ...)): strictly within a day
       /\ time.tzoffset > -86400 /\ time.tzoffset < 86400
       \* the constructor's checks of the time
       /\ time.vals[1] \in 0..23
       /\ time.vals[2] \in 0..59
       /\ time.vals[3] \in 0..59

\* ------------------------------------------------------------------------
\* datetime.strptime(value, "%m/%d/%Y %I:%M %p"): the regular expression
\* _strptime builds for the format must match the whole text, and the date
\* found must be a date
\* ------------------------------------------------------------------------
\* cs holds character c at position p (from 1)
CharAt(cs, p, c) == p >= 1 /\ p <= Len(cs) /\ cs[p] = c

\* the len characters of cs from p on are digits of a number in lo..hi:
\* the shape of 1[0-2]|0[1-9]|[1-9] for 1..12, 3[0-1]|[1-2]\d|0[1-9]|[1-9]
\* for 1..31 and [0-5]\d|\d for 0..59
Number(cs, p, len, lo, hi) ==
    /\ p + len - 1 <= Len(cs)
    /\ \A q \in p..(p + len - 1) : IsDigitChar(cs[q])
    /\ IntOf(SubSeq(cs, p, p + len - 1)) \in lo..hi

RECURSIVE Blanks(_, _)
\* the number of blanks of cs from position p on: what \s+ takes
Blanks(cs, p) ==
    IF p <= Len(cs) /\ cs[p] = " " THEN 1 + Blanks(cs, p + 1) ELSE 0

\* TRUE where strptime returns a datetime, FALSE where it raises ValueError.
\* Month, day, hour and minute have one or two digits, the day may be a
\* blank and a digit, the year has four digits, \s+ is one or more blanks,
\* AM and PM are matched in any case.  Texts whose digits are ASCII digits
\* and whose only white space is the blank.
strptime_ok(cs) ==
    \E lm, ld, lh, ln \in {1, 2} :
       LET d == lm + 2
           y == d + ld + 1
           b1 == Blanks(cs, y + 4)
           h == y + 4 + b1
           n == h + lh + 1
           b2 == Blanks(cs, n + ln)
           a == n + ln + b2
       IN /\ Number(cs, 1, lm, 1, 12)
          /\ CharAt(cs, lm + 1, "/")
          /\ \/ Number(cs, d, ld, 1, 31)
             \/ ld = 2 /\ CharAt(cs, d, " ") /\ Number(cs, d + 1, 1, 1, 9)
          /\ CharAt(cs, d + ld, "/")
          /\ Number(cs, y, 4, 0, 9999)
          /\ b1 >= 1
          /\ Number(cs, h, lh, 1, 12)
          /\ CharAt(cs, h + lh, ":")
          /\ Number(cs, n, ln, 0, 59)
          /\ b2 >= 1
          /\ Len(cs) = a + 1
          /\ lower(SubSeq(cs, a, a + 1)) \in {<<"a", "m">>, <<"p", "m">>}
          /\ date_ok(IntOf(SubSeq(cs, y, y + 3)),
                     IntOf(SubSeq(cs, 1, lm)),
                     IntOf(strip(SubSeq(cs, d, d + ld - 1))))

\* [parse_value(item) for item in items]: the list of the parsed items, or
\* the exception of the first item that raises one
Parsed(items) ==
    IF \E p \in 1..Len(items) : items[p].t = "raise"
    THEN items[CHOOSE p \in 1..Len(items) :
                   /\ items[p].t = "raise"
                   /\ \A q \in 1..(p - 1) : items[q].t # "raise"]
    ELSE PyList(items)

\* int(value) of a string that str.isdigit() accepts
int_of_digits(cs) ==
    IF int_ok(cs) THEN PyInt(IntOf(cs)) ELSE PyRaise("ValueError")

RECURSIVE parse_value(_)
\* parse_value(value) for a string, a list, or a value json.loads puts in
\* a list (None, a bool, an int, a float).  The texts are those of float,
\* fromisoformat_ok, strptime_ok and json_loads above: ASCII characters
\* and U+00B2, the blank as the only white space, no underscore, brace,
\* backslash or control character, numerals of at most 9 digits with
\* exponents of at most 2 digits.
parse_value(value) ==
    LET \* the last try block, js being json.loads(value): the ValueError
        \* of an item is caught with those of json.loads
        Listed(items) == IF items.t = "raise" THEN value ELSE items
        Embedded(js) ==
            IF value.t = "str" /\ js.ok /\ js.val.t = "list"
            THEN Listed(Parsed([p \in 1..Len(js.val.v) |->
                                  parse_value(js.val.v[p])]))
            ELSE value
        \* the try blocks from float(value) on, f being its outcome
        Typed(f) ==
            IF f.ok THEN f.val
            ELSE IF value.t = "str" /\ Contains(<<"T">>, value.v)
                    /\ fromisoformat_ok(value.v)
            THEN PyDateTime(value.v)
            ELSE IF value.t = "str"
                    /\ (\/ Contains(<<"A","M">>, value.v)
                        \/ Contains(<<"P","M">>, value.v))
                    /\ strptime_ok(value.v)
            THEN PyDateTime(value.v)
            ELSE Embedded(IF value.t = "str" THEN json_loads(value.v)
                          ELSE JFail)
    IN IF value.t = "str"
          /\ value.v \in {<<>>, <<"n","u","l","l">>, <<"N","o","n","e">>}
       THEN PyNone
       ELSE IF value.t = "list"
       THEN Parsed([p \in 1..Len(value.v) |-> parse_value(value.v[p])])
       ELSE IF value.t = "str" /\ lower(value.v) = <<"t","r","u","e">>
       THEN PyBool(TRUE)
       ELSE IF value.t = "str" /\ lower(value.v) = <<"f","a","l","s","e">>
       THEN PyBool(FALSE)
       ELSE IF value.t = "str" /\ isdigit(value.v)
       THEN int_of_digits(value.v)
       ELSE Typed(float(value))

\* ------------------------------------------------------------------------
\* Tables: pd.DataFrame as column names and rows, or the exception raised
\* in its place
\* ------------------------------------------------------------------------
DataFrame(cols, rows) ==
    [kind |-> "df", columns |-> cols, rows |-> rows, error |-> <<>>]

TableError(exc, text) ==
    [kind |-> "raise", columns |-> <<>>, rows |-> <<>>, error |-> <<exc, text>>]

\* pd.DataFrame()
EmptyFrame == DataFrame(<<>>, <<>>)

\* a row padded with None to width w
Padded(row, w) == [p \in 1..w |-> IF p <= Len(row) THEN row[p] ELSE PyNone]

\* pd.DataFrame(data_rows, columns=headers) for a non-empty list of lists:
\* the rows are padded to the longest one, and that width must be the
\* number of headers
NewDataFrame(data_rows, headers) ==
    LET w == Max({Len(data_rows[p].v) : p \in 1..Len(data_rows)})
    IN IF w # Len(headers)
       THEN TableError("ValueError", <<"columns passed, passed data had other columns">>)
       ELSE DataFrame(headers,
                      [p \in 1..Len(data_rows) |-> Padded(data_rows[p].v, w)])

table_to_dataframe(table_data) ==
    IF /\ table_data.t = "list"
       /\ Len(table_data.v) > 1
       /\ \A p \in 1..Len(table_data.v) : table_data.v[p].t = "list"
    THEN NewDataFrame(Tail(table_data.v), table_data.v[1].v)
    ELSE EmptyFrame

RECURSIVE AddNew(_, _)
\* the names of cols appended to acc, each once, in order
AddNew(acc, cols) ==
    IF cols = <<>> THEN acc
    ELSE AddNew(IF \E p \in 1..Len(acc) : acc[p] = Head(cols)
                THEN acc ELSE Append(acc, Head(cols)),
                Tail(cols))

RECURSIVE UnionColumns(_, _)
\* the OrderedDict of all columns, in order of first appearance
UnionColumns(acc, dataframes) ==
    IF dataframes = <<>> THEN acc
    ELSE UnionColumns(AddNew(acc, Head(dataframes).columns), Tail(dataframes))

Names(cols) == {cols[p] : p \in 1..Len(cols)}

\* the cell of a row of df under column col, or fill when df has no such
\* column
Cell(df, row, col, fill) ==
    IF col \in Names(df.columns)
    THEN row[CHOOSE p \in 1..Len(df.columns) : df.columns[p] = col]
    ELSE fill

\* df with exactly the columns cols, in that order; fill where df lacks one
Aligned(df, cols, fill) ==
    DataFrame(cols,
              [r \in 1..Len(df.rows) |->
                  [c \in 1..Len(cols) |-> Cell(df, df.rows[r], cols[c], fill)]])

\* NaN, the fill value of pd.concat
NaN == [t |-> "NaN", v |-> <<>>]

RECURSIVE AllRows(_, _)
AllRows(dfs, cols) ==
    IF dfs = <<>> THEN <<>>
    ELSE Aligned(Head(dfs), cols, NaN).rows \o AllRows(Tail(dfs), cols)

\* pd.concat(processed_dfs, ignore_index=True)
concat(processed_dfs) ==
    IF processed_dfs = <<>>
    THEN TableError("ValueError", <<"No objects to concatenate">>)
    ELSE LET cols == UnionColumns(<<>>, processed_dfs)
         IN DataFrame(cols, AllRows(processed_dfs, cols))

\* for col in columns: if col not in df.columns: df[col] = pd.NA
\* the table df itself after the loop: every name of columns it lacks is
\* appended, in the order of columns, with pd.NA in every row
Filled(df, columns) ==
    LET cols == AddNew(df.columns, columns)
    IN DataFrame(cols,
                 [r \in 1..Len(df.rows) |->
                     [c \in 1..Len(cols) |->
                         IF c <= Len(df.columns) THEN df.rows[r][c] ELSE PdNA]])

\* the tables of the caller's list after the call (the tables of the list
\* being distinct objects): the non-strict branch assigns the missing
\* columns to the table it was handed, before df = df[columns] makes the
\* reordered copy; the strict branch and the empty list change nothing
FramesAfter(dataframes, columns0, strict) ==
    LET columns == IF columns0 = PyNone
                   THEN UnionColumns(<<>>, dataframes) ELSE columns0.v
    IN IF strict THEN dataframes
       ELSE [p \in 1..Len(dataframes) |-> Filled(dataframes[p], columns)]

\* a stacker that fills and reorders also when strict is set
stack_dataframes_Lenient(dataframes, columns0, strict) ==
    LET columns == IF columns0 = PyNone
                   THEN UnionColumns(<<>>, dataframes) ELSE columns0.v
    IN concat([p \in 1..Len(dataframes) |->
                  Aligned(dataframes[p], columns, PdNA)])

\* columns is PyNone or a PyList of names
stack_dataframes(dataframes, columns0, strict) ==
    LET columns == IF columns0 = PyNone
                   THEN UnionColumns(<<>>, dataframes) ELSE columns0.v
        mismatch == \E p \in 1..Len(dataframes) :
                       Names(dataframes[p].columns) # Names(columns)
        processed_dfs ==
            [p \in 1..Len(dataframes) |->
                IF strict THEN dataframes[p]
                ELSE Aligned(Filled(dataframes[p], columns), columns, PdNA)]
    IN IF strict /\ mismatch
       THEN TableError("ValueError",
                       <<"Dataframe columns do not match the specified columns.">>)
       ELSE concat(processed_dfs)

\* ------------------------------------------------------------------------
\* Outcomes of batch mode
\* ------------------------------------------------------------------------
Digit(k) ==
    CASE k = 0 -> "0" [] k = 1 -> "1" [] k = 2 -> "2" [] k = 3 -> "3"
      [] OTHER -> "4"

Success(i, d) ==
    [kind |-> "success", fields |-> d, request_order |-> i, text |-> <<>>]

\* no request index
NoIndex == -1

Failure(t) ==
    [kind |-> "failure", fields |-> <<>>, request_order |-> NoIndex, text |-> t]

Keys(d) == {d[p][1] : p \in 1..Len(d)}

\* d[k]
Get(d, k) == d[CHOOSE p \in 1..Len(d) : d[p][1] = k][2]

\* ------------------------------------------------------------------------
\* State
\* ------------------------------------------------------------------------
VARIABLES
    \* make_multiple_requests: arguments
    n,              \* len(requests_json)
    timeout,
    max_retries,
    retry_delay,
    \* make_multiple_requests: locals
    b_pc,           \* "send", "wait", "event", "sleep", "returned", "raised"
    i_send,         \* the index the sending loop is at
    corr_mapping,   \* correlation value -> request index
    retry_counts,   \* request index -> retries so far
    responses,      \* request index -> outcome, in insertion order
    pending,        \* indices still waiting for a final response
    start_time,
    event_type,     \* type of the event being drained
    ev_left,        \* messages of that event not yet handled
    corr_id_int,    \* the index being retried while the loop sleeps
    b_result,       \* what the call returned or raised
    branch,         \* the branch the last handled message took
    \* make_request / get_response
    parse_response,
    s_pc,           \* "idle", "attempt", "poll", "handle", "sleep",
                    \* "returned", "raised"
    attempt,        \* the loop variable of  for attempt in range(retries)
    response,       \* what get_response returned
    s_result,       \* what make_request returned or raised
    idle_polls,     \* polls of this call whose event held no message to return
    throttled,      \* attempts of this call answered by a throttling error
    slept,          \* seconds this call spent in time.sleep
    \* run_AssetRequest
    o_pc,           \* "none", "start", "rejected", "loop", "done"
    n_sec,          \* len(security_list)
    formatted_collateral_report,
    requests_json,
    req_pos,        \* the position of  for req in requests_json
    dataframes,
    failed,         \* the positions whose request or table failed
    o_result,       \* what run_AssetRequest returned or raised
    \* the session and the clock
    sent,           \* request index -> number of sendRequest calls
    wire,           \* the <<request index, correlation value>> pairs sent
    now,
    \* a call of parse_value, table_to_dataframe or stack_dataframes
    fn,             \* the function called, "none" outside such a call
    arg,            \* its arguments
    out             \* what it returned or raised, once it has

batch_vars ==
    <<n, timeout, max_retries, retry_delay, b_pc, i_send, corr_mapping,
      retry_counts, responses, pending, start_time, event_type, ev_left,
      corr_id_int, b_result, branch, now>>

single_vars ==
    <<parse_response, s_pc, attempt, response, s_result, idle_polls,
      throttled, slept>>

asset_vars ==
    <<o_pc, n_sec, formatted_collateral_report, requests_json, req_pos,
      dataframes, failed, o_result>>

session_vars == <<sent, wire>>

call_vars == <<fn, arg, out>>

vars == <<batch_vars, single_vars, asset_vars, session_vars, call_vars>>

\* the call has not returned
Unset == [t |-> "unset", v |-> <<>>]

\* no function is being called on its own
CallIdle ==
    /\ fn = "none"
    /\ arg = <<>>
    /\ out = Unset

NoResult == [kind |-> "none", value |-> <<>>]

\* no message: the None that get_response returns
NoMsg == Msg(NoCid, "None", "none", <<>>, <<>>)

\* make_request is not running
SingleIdle ==
    /\ parse_response = TRUE
    /\ s_pc = "idle"
    /\ attempt = 0
    /\ response = NoMsg
    /\ s_result = NoResult
    /\ idle_polls = 0
    /\ throttled = 0
    /\ slept = 0

\* run_AssetRequest is not running
AssetIdle ==
    /\ o_pc = "none"
    /\ n_sec = 0
    /\ formatted_collateral_report = <<>>
    /\ requests_json = <<>>
    /\ req_pos = 0
    /\ dataframes = <<>>
    /\ failed = {}
    /\ o_result = EmptyFrame

\* make_multiple_requests is not running
BatchIdle ==
    /\ n = 0
    /\ timeout = MaxTimeout
    /\ max_retries = 0
    /\ retry_delay = MaxDelay
    /\ b_pc = "idle"
    /\ i_send = 0
    /\ corr_mapping = <<>>
    /\ retry_counts = <<>>
    /\ responses = <<>>
    /\ pending = {}
    /\ start_time = 0
    /\ event_type = "none"
    /\ ev_left = 0
    /\ corr_id_int = NoIndex
    /\ b_result = NoResult
    /\ branch = "none"
    /\ now = 0

\* ------------------------------------------------------------------------
\* make_multiple_requests
\* ------------------------------------------------------------------------
BatchInit ==
    /\ n \in 0..MaxReq
    /\ timeout = MaxTimeout
    /\ max_retries \in 0..MaxRetries
    /\ retry_delay = MaxDelay
    /\ b_pc = "send"
    /\ i_send = 0
    /\ corr_mapping = <<>>
    /\ retry_counts = <<>>
    /\ responses = <<>>
    /\ pending = {}
    /\ start_time = 0
    /\ event_type = "none"
    /\ ev_left = 0
    /\ corr_id_int = NoIndex
    /\ b_result = NoResult
    /\ branch = "none"
    /\ sent = <<>>
    /\ wire = {}
    /\ now = 0
    /\ SingleIdle
    /\ AssetIdle
    /\ CallIdle

\* a submission that takes a new correlation value each time a request is
\* sent again
SendRequest_FreshValue(i, c) ==
    /\ sent' = (i :> (IF i \in DOMAIN sent THEN sent[i] + 1 ELSE 1)) @@ sent
    /\ wire' = wire \cup {<<i, IF i \in DOMAIN sent THEN c + sent[i] ELSE c>>}

\* session.sendRequest(requests_map[i], None, CorrelationId(c))
SendRequest(i, c) ==
    /\ sent' = (i :> (IF i \in DOMAIN sent THEN sent[i] + 1 ELSE 1)) @@ sent
    /\ wire' = wire \cup {<<i, c>>}

\* one iteration of the loop that builds and sends each request
Send ==
    /\ b_pc = "send"
    /\ i_send < n
    /\ SendRequest(i_send, i_send)
    /\ corr_mapping' = (i_send :> i_send) @@ corr_mapping
    /\ retry_counts' = (i_send :> 0) @@ retry_counts
    /\ i_send' = i_send + 1
    /\ UNCHANGED <<n, timeout, max_retries, retry_delay, b_pc, responses,
                   pending, start_time, event_type, ev_left, corr_id_int,
                   b_result, branch, now,
                   single_vars, asset_vars>>
    /\ UNCHANGED call_vars

\* a sending loop that is left one request early
StartWait_Early ==
    /\ b_pc = "send"
    /\ i_send >= n - 1
    /\ pending' = 0..(n - 1)
    /\ start_time' = now
    /\ b_pc' = "wait"
    /\ UNCHANGED <<n, timeout, max_retries, retry_delay, i_send,
                   corr_mapping, retry_counts, responses, event_type,
                   ev_left, corr_id_int, b_result, branch, sent, wire, now,
                   single_vars, asset_vars>>
    /\ UNCHANGED call_vars

\* pending = set(range(len(requests_json))); start_time = time.time()
StartWait ==
    /\ b_pc = "send"
    /\ i_send = n
    /\ pending' = 0..(n - 1)
    /\ start_time' = now
    /\ b_pc' = "wait"
    /\ UNCHANGED <<n, timeout, max_retries, retry_delay, i_send,
                   corr_mapping, retry_counts, responses, event_type,
                   ev_left, corr_id_int, b_result, branch, sent, wire, now,
                   single_vars, asset_vars>>
    /\ UNCHANGED call_vars

\* the deadline test with one tick of slack
TimedOut_Slack(elapsed, limit) == elapsed > limit + 1

\* elapsed > timeout
TimedOut(elapsed, limit) == elapsed > limit

\* a deadline test that logs the timeout and raises nothing
Timeout_LogOnly ==
    /\ b_pc = "wait"
    /\ pending # {}
    /\ TimedOut(now - start_time, timeout)
    /\ UNCHANGED vars

\* raise Exception("Request timed out")
Timeout ==
    /\ b_pc = "wait"
    /\ pending # {}
    /\ TimedOut(now - start_time, timeout)
    /\ b_pc' = "raised"
    /\ b_result' = [kind |-> "raise", value |-> <<"Request timed out">>]
    /\ UNCHANGED <<n, timeout, max_retries, retry_delay, i_send,
                   corr_mapping, retry_counts, responses, pending,
                   start_time, event_type, ev_left, corr_id_int, branch,
                   sent, wire, now,
                   single_vars, asset_vars>>
    /\ UNCHANGED call_vars

\* event = session.nextEvent(1000): the poll takes dt ticks and yields an
\* event of k messages
NextEvent ==
    /\ b_pc = "wait"
    /\ pending # {}
    /\ ~TimedOut(now - start_time, timeout)
    /\ \E dt \in 0..PollTicks, et \in EventTypes, k \in 0..MaxMsgs :
          /\ now' = now + dt
          /\ event_type' = et
          /\ ev_left' = k
          /\ b_pc' = IF k = 0 THEN "wait" ELSE "event"
    /\ UNCHANGED <<n, timeout, max_retries, retry_delay, i_send,
                   corr_mapping, retry_counts, responses, pending,
                   start_time, corr_id_int, b_result, branch, sent, wire,
                   single_vars, asset_vars>>
    /\ UNCHANGED call_vars

\* a lookup that falls back to request 0 for an unknown correlation value
corr_index_Default(m, cm) ==
    IF m.cid = NoCid THEN NoIndex
    ELSE IF m.cid \notin DOMAIN cm THEN 0 ELSE cm[m.cid]

\* the request index a message belongs to: none when the message has no
\* correlation id or its value is not in corr_mapping
corr_index(m, cm) ==
    IF m.cid = NoCid \/ m.cid \notin DOMAIN cm THEN NoIndex ELSE cm[m.cid]

\* the retry test off by one
MayRetry_Inclusive(count, mr) == count <= mr

\* retry_counts[corr_id_int] < max_retries
MayRetry(count, mr) == count < mr

\* a test that takes every error message for a throttling message
IsThrottle_Always(error_msg) == TRUE

\* "Limit reached" in error_msg
IsThrottle(error_msg) == Contains(LimitReached, error_msg)

\* the loop body without its test  if corr_id_int not in pending: continue
Branch_NoPendingTest(m, et, cm, pend, rc, mr) ==
    IF corr_index(m, cm) = NoIndex
    THEN IF m.cid = NoCid THEN "no_cid" ELSE "unknown_cid"
    ELSE IF m.mtype = "RequestFailure" THEN "request_failure"
    ELSE IF et \in {"PARTIAL_RESPONSE", "RESPONSE"}
    THEN IF m.body = "errorResponse"
         THEN IF IsThrottle(m.message)
              THEN IF MayRetry(rc[corr_index(m, cm)], mr)
                   THEN "retry" ELSE "throttle_limit"
              ELSE "error"
         ELSE IF m.body = "cmpExcelResponse" THEN "success"
         ELSE IF m.body = "otherJson" THEN "unexpected"
         ELSE "exception"
    ELSE "skipped"

\* a loop body that keeps the fields of a partial response for later and
\* ends the request only on the final response
Branch_PartialWaits(m, et, cm, pend, rc, mr) ==
    IF corr_index(m, cm) = NoIndex
    THEN IF m.cid = NoCid THEN "no_cid" ELSE "unknown_cid"
    ELSE IF corr_index(m, cm) \notin pend THEN "not_pending"
    ELSE IF m.mtype = "RequestFailure" THEN "request_failure"
    ELSE IF et \in {"PARTIAL_RESPONSE", "RESPONSE"}
    THEN IF m.body = "errorResponse"
         THEN IF IsThrottle(m.message)
              THEN IF MayRetry(rc[corr_index(m, cm)], mr)
                   THEN "retry" ELSE "throttle_limit"
              ELSE "error"
         ELSE IF m.body = "cmpExcelResponse"
         THEN IF et = "PARTIAL_RESPONSE" THEN "skipped" ELSE "success"
         ELSE IF m.body = "otherJson" THEN "unexpected"
         ELSE "exception"
    ELSE "skipped"

\* the branch of the loop body a message takes
Branch(m, et, cm, pend, rc, mr) ==
    IF corr_index(m, cm) = NoIndex
    THEN IF m.cid = NoCid THEN "no_cid" ELSE "unknown_cid"
    ELSE IF corr_index(m, cm) \notin pend THEN "not_pending"
    ELSE IF m.mtype = "RequestFailure" THEN "request_failure"
    ELSE IF et \in {"PARTIAL_RESPONSE", "RESPONSE"}
    THEN IF m.body = "errorResponse"
         THEN IF IsThrottle(m.message)
              THEN IF MayRetry(rc[corr_index(m, cm)], mr)
                   THEN "retry" ELSE "throttle_limit"
              ELSE "error"
         ELSE IF m.body = "cmpExcelResponse" THEN "success"
         ELSE IF m.body = "otherJson" THEN "unexpected"
         ELSE "exception"
    ELSE "skipped"

\* the value stored in responses[i] by a branch that ends request i
Outcome(b, m, i, mr) ==
    CASE b = "request_failure" -> Failure(<<"RequestFailure: ", "msg">>)
      [] b = "throttle_limit" ->
            Failure(<<"Throttle limit reached after ", Digit(mr), " retries.">>)
      [] b = "error" -> Failure(m.message)
      [] b = "success" -> Success(i, Flatten(<<>>, m.results))
      [] b = "unexpected" -> Failure(<<"Unexpected response format: ", "data">>)
      [] OTHER -> Failure(<<"JSONDecodeError">>)

\* the branches that store a value in responses
Terminal == {"request_failure", "throttle_limit", "error", "success",
             "unexpected", "exception"}

\* a loop body that stores the outcome of a message under index 0
Record_AtZero(resp, b, m, i, mr) ==
    IF b \in Terminal THEN Put(resp, 0, Outcome(b, m, i, mr)) ELSE resp

\* responses[corr_id_int] = ...
Record(resp, b, m, i, mr) ==
    IF b \in Terminal THEN Put(resp, i, Outcome(b, m, i, mr)) ELSE resp

\* the RequestFailure branch without its pending.remove
Remove_NotOnFailure(pend, b, i) ==
    IF b \in Terminal \ {"request_failure"} THEN pend \ {i} ELSE pend

\* a loop body in which a late message makes its index pending again
Remove_LateReopens(pend, b, i) ==
    IF b \in Terminal THEN pend \ {i}
    ELSE IF b = "not_pending" THEN pend \cup {i} ELSE pend

\* pending.remove(corr_id_int)
Remove(pend, b, i) == IF b \in Terminal THEN pend \ {i} ELSE pend

\* a retry that does not count itself
Count_Never(rc, b, i) == rc

\* a retry that is counted for every request
Count_All(rc, b, i) ==
    IF b = "retry" THEN [j \in DOMAIN rc |-> rc[j] + 1] ELSE rc

\* retry_counts[corr_id_int] += 1
Count(rc, b, i) == IF b = "retry" THEN [rc EXCEPT ![i] = @ + 1] ELSE rc

\* the position of the loop after a message: the next message of the
\* event, or the top of the while loop
AfterMsg(left) == IF left = 0 THEN "wait" ELSE "event"

\* one iteration of  for msg in event
HandleMsg(m) ==
    /\ b_pc = "event"
    /\ ev_left > 0
    /\ ev_left' = ev_left - 1
    /\ LET i == corr_index(m, corr_mapping)
           b == Branch(m, event_type, corr_mapping, pending, retry_counts,
                       max_retries)
       IN /\ branch' = b
          /\ retry_counts' = Count(retry_counts, b, i)
          /\ responses' = Record(responses, b, m, i, max_retries)
          /\ pending' = Remove(pending, b, i)
          /\ corr_id_int' = IF b = "retry" THEN i ELSE corr_id_int
          /\ b_pc' = IF b = "retry" THEN "sleep" ELSE AfterMsg(ev_left')
    /\ UNCHANGED <<n, timeout, max_retries, retry_delay, i_send,
                   corr_mapping, start_time, event_type, b_result, sent,
                   wire, now,
                   single_vars, asset_vars>>
    /\ UNCHANGED call_vars

\* a retry wait that tests the deadline when it wakes up and raises
\* instead of sending the request again
Resend_TestsDeadline ==
    /\ b_pc = "sleep"
    /\ now' = now + retry_delay
    /\ IF TimedOut(now' - start_time, timeout)
       THEN /\ b_pc' = "raised"
            /\ b_result' = [kind |-> "raise", value |-> <<"Request timed out">>]
            /\ UNCHANGED <<sent, wire, corr_id_int>>
       ELSE /\ SendRequest(corr_id_int, corr_id_int)
            /\ b_pc' = AfterMsg(ev_left)
            /\ corr_id_int' = NoIndex
            /\ UNCHANGED b_result
    /\ UNCHANGED <<n, timeout, max_retries, retry_delay, i_send,
                   corr_mapping, retry_counts, responses, pending,
                   start_time, event_type, ev_left, branch,
                   single_vars, asset_vars>>
    /\ UNCHANGED call_vars

\* time.sleep(retry_delay); session.sendRequest(requests_map[corr_id_int],
\* None, CorrelationId(corr_id_int))
Resend ==
    /\ b_pc = "sleep"
    /\ now' = now + retry_delay
    /\ SendRequest(corr_id_int, corr_id_int)
    /\ b_pc' = AfterMsg(ev_left)
    /\ corr_id_int' = NoIndex
    /\ UNCHANGED <<n, timeout, max_retries, retry_delay, i_send,
                   corr_mapping, retry_counts, responses, pending,
                   start_time, event_type, ev_left, b_result, branch,
                   single_vars, asset_vars>>
    /\ UNCHANGED call_vars

\* list(responses.values()): the outcomes in the order they were recorded
ordered_responses_Arrival(resp, len) == [k \in 1..len |-> resp[k][2]]

\* [responses[i] for i in range(len(requests_json))]
ordered_responses(resp, len) == [k \in 1..len |-> Get(resp, k - 1)]

\* the while loop ends: return ordered_responses
Return ==
    /\ b_pc = "wait"
    /\ pending = {}
    /\ b_pc' = "returned"
    /\ b_result' = [kind |-> "return", value |-> ordered_responses(responses, n)]
    /\ UNCHANGED <<n, timeout, max_retries, retry_delay, i_send,
                   corr_mapping, retry_counts, responses, pending,
                   start_time, event_type, ev_left, corr_id_int, branch,
                   sent, wire, now,
                   single_vars, asset_vars>>
    /\ UNCHANGED call_vars

\* ------------------------------------------------------------------------
\* make_request and get_response
\* ------------------------------------------------------------------------
\* retries = 3
Retries == 3

\* time.sleep(1)
ThrottleWait == 1

\* the report name "a" and the default key "assets"
ReportA == <<"a">>

Assets == <<"a","s","s","e","t","s">>

\* [["A","B"],["1","x"]]
Table1Text ==
    JList(<<JList(<<JQuote(<<"A">>), JQuote(<<"B">>)>>),
            JList(<<JQuote(<<"1">>), JQuote(<<"x">>)>>)>>)

\* [["A","C"],["2","y"]]
Table2Text ==
    JList(<<JList(<<JQuote(<<"A">>), JQuote(<<"C">>)>>),
            JList(<<JQuote(<<"2">>), JQuote(<<"y">>)>>)>>)

\* [["A","C"],["3"]]
RaggedText ==
    JList(<<JList(<<JQuote(<<"A">>), JQuote(<<"C">>)>>),
            JList(<<JQuote(<<"3">>)>>)>>)

\* results holding one result with one field
OneField(name, text) == << << <<name, PyStr(text)>> >> >>

\* results holding one result with two fields of one name, the first with a
\* value float() takes for a numeral and cannot convert
TwoFields ==
    << << <<(<<"f">>), PyStr(<<Sup2>>)>>, <<(<<"f">>), PyStr(<<"1">>)>> >> >>

SingleResults ==
    {OneField(ReportA, Table1Text), OneField(ReportA, Table2Text),
     OneField(Assets, Table1Text), OneField(ReportA, <<"x">>),
     OneField(ReportA, RaggedText), OneField(<<"f">>, <<"1">>), TwoFields}

\* the messages an event may hold in single-request mode
SingleMessages == Messages({NoCid}, SingleResults)

\* the message lists of an event
MessageLists ==
    UNION {[1..len -> SingleMessages] : len \in 0..MaxMsgs}

Raised(exc, text) == [kind |-> "raise", value |-> <<exc, text>>]

RECURSIVE get_response_scan(_, _)
\* for msg in event: the first message of a RESPONSE event is returned, a
\* RequestFailure message of another event returns None, anything else is
\* passed over
get_response_scan(et, msgs) ==
    IF msgs = <<>> THEN [done |-> FALSE, val |-> NoMsg]
    ELSE IF et = "RESPONSE" THEN [done |-> TRUE, val |-> Head(msgs)]
    ELSE IF Head(msgs).mtype = "RequestFailure"
    THEN [done |-> TRUE, val |-> NoMsg]
    ELSE get_response_scan(et, Tail(msgs))

\* for attempt in range(retries)
BudgetLeft(a) == a < Retries

\* the branch of the loop body of make_request a response takes
Decide(resp) ==
    IF resp = NoMsg THEN "no_response"
    ELSE IF resp.body = "errorResponse"
    THEN IF IsThrottle(resp.message) THEN "throttle" ELSE "error"
    ELSE IF resp.body = "cmpExcelResponse" THEN "return"
    ELSE IF resp.body = "otherJson" THEN "invalid_response"
    ELSE "exception"

RECURSIVE AllFields(_)
\* for results in data["cmpExcelResponse"]["results"]
\* for x in results["fields"]: every field, in the order of the two loops
AllFields(results) ==
    IF results = <<>> THEN <<>>
    ELSE Head(results) \o AllFields(Tail(results))

\* the fields with every value passed through parse_value, also the value
\* of a field that a later field of the same name replaces (values of the
\* texts parse_value is modelled for)
ParseAll(d) == [p \in 1..Len(d) |-> <<d[p][1], parse_value(d[p][2])>>]

\* the dictionary the comprehension builds of the fields it has evaluated,
\* as [ok, value, exc]: the mapping, a later field replacing an earlier one
\* of its name, or the exception of the first field whose value is one
Comprehension(fields) ==
    IF \E p \in 1..Len(fields) : fields[p][2].t = "raise"
    THEN [ok |-> FALSE, value |-> <<>>,
          exc |-> fields[CHOOSE p \in 1..Len(fields) :
                            /\ fields[p][2].t = "raise"
                            /\ \A q \in 1..(p - 1) :
                                  fields[q][2].t # "raise"][2].v[1]]
    ELSE [ok |-> TRUE, value |-> UpdateAll(<<>>, fields), exc |-> ""]

\* output = {x["name"]: ... for results in ... for x in results["fields"]}
Output(results, parse) ==
    Comprehension(IF parse THEN ParseAll(AllFields(results))
                  ELSE AllFields(results))

\* return output, or the exception that building output raised
Returned(output) ==
    IF output.ok THEN [kind |-> "return", value |-> output.value]
    ELSE Raised(output.exc, <<>>)

\* what make_request returns or raises in a branch that ends the call
Result(d, resp, parse) ==
    CASE d = "error" -> Raised("Exception", resp.message)
      [] d = "return" -> Returned(Output(resp.results, parse))
      [] d = "invalid_response" -> Raised("ValueError", <<"Invalid response: ", "msg">>)
      [] OTHER ->
            Raised(IF resp.body = "invalid" THEN "JSONDecodeError"
                   ELSE "NotFoundException", <<>>)

\* get_response(request, session): session.sendRequest(request)
Attempt ==
    /\ s_pc = "attempt"
    /\ BudgetLeft(attempt)
    /\ SendRequest(req_pos, NoCid)
    /\ s_pc' = "poll"
    /\ UNCHANGED <<parse_response, attempt, response, s_result, idle_polls,
                   throttled, slept, batch_vars, asset_vars>>
    /\ UNCHANGED call_vars

\* raise TimeoutError after the loop
GiveUp ==
    /\ s_pc = "attempt"
    /\ ~BudgetLeft(attempt)
    /\ s_pc' = "raised"
    /\ s_result' =
          Raised("TimeoutError",
                 <<"Failed to receive a valid response after multiple attempts.">>)
    /\ UNCHANGED <<parse_response, attempt, response, idle_polls, throttled,
                   slept, batch_vars, asset_vars, session_vars>>
    /\ UNCHANGED call_vars

\* one pass of  while True  in get_response: event = session.nextEvent(1000)
\* and the scan of its messages.  The loop has no exit of its own; the model
\* stops counting the polls that end no attempt at MaxPolls.
Poll ==
    /\ s_pc = "poll"
    /\ \E et \in EventTypes, msgs \in MessageLists :
          LET r == get_response_scan(et, msgs)
          IN IF r.done
             THEN /\ response' = r.val
                  /\ s_pc' = "handle"
                  /\ UNCHANGED idle_polls
             ELSE /\ idle_polls < MaxPolls
                  /\ idle_polls' = idle_polls + 1
                  /\ UNCHANGED <<response, s_pc>>
    /\ UNCHANGED <<parse_response, attempt, s_result, throttled, slept,
                   batch_vars, asset_vars, session_vars>>
    /\ UNCHANGED call_vars

\* the body of the for loop of make_request after get_response returned
Handle ==
    /\ s_pc = "handle"
    /\ LET d == Decide(response)
       IN IF d = "no_response"
          THEN /\ attempt' = attempt + 1
               /\ s_pc' = "attempt"
               /\ UNCHANGED <<s_result, throttled>>
          ELSE IF d = "throttle"
          THEN /\ throttled' = throttled + 1
               /\ s_pc' = "sleep"
               /\ UNCHANGED <<s_result, attempt>>
          ELSE /\ s_result' = Result(d, response, parse_response)
               /\ s_pc' = IF s_result'.kind = "return"
                          THEN "returned" ELSE "raised"
               /\ UNCHANGED <<attempt, throttled>>
    /\ UNCHANGED <<parse_response, response, idle_polls, slept, batch_vars,
                   asset_vars, session_vars>>
    /\ UNCHANGED call_vars

\* time.sleep(1), then the next attempt
Sleep ==
    /\ s_pc = "sleep"
    /\ slept' = slept + ThrottleWait
    /\ attempt' = attempt + 1
    /\ s_pc' = "attempt"
    /\ UNCHANGED <<parse_response, response, s_result, idle_polls, throttled,
                   batch_vars, asset_vars, session_vars>>
    /\ UNCHANGED call_vars

\* a call of make_request for one request
SingleInit ==
    /\ BatchIdle
    /\ AssetIdle
    /\ sent = <<>>
    /\ wire = {}
    /\ parse_response \in BOOLEAN
    /\ s_pc = "attempt"
    /\ attempt = 0
    /\ response = NoMsg
    /\ s_result = NoResult
    /\ idle_polls = 0
    /\ throttled = 0
    /\ slept = 0
    /\ CallIdle

SingleNext == Attempt \/ GiveUp \/ Poll \/ Handle \/ Sleep

SpecSingle == SingleInit /\ [][SingleNext]_vars

\* ------------------------------------------------------------------------
\* run_AssetRequest
\* ------------------------------------------------------------------------
\* factor_date: None, a string in YYYYMM format, another string
FactorDates == {"None", "str_ok", "str_bad"}

Alphabet == {"a", ",", ";", " "}

\* the collateral_report strings
ReportInputs == UNION {[1..len -> Alphabet] : len \in 0..MaxReportLen}

RECURSIVE SplitOn(_, _, _, _)
\* the pieces of cs between the characters of seps
SplitOn(cs, seps, cur, acc) ==
    IF cs = <<>> THEN Append(acc, cur)
    ELSE IF Head(cs) \in seps THEN SplitOn(Tail(cs), seps, <<>>, Append(acc, cur))
    ELSE SplitOn(Tail(cs), seps, Append(cur, Head(cs)), acc)

\* a split on commas only
re_split_CommaOnly(cs) == SplitOn(cs, {","}, <<>>, <<>>)

\* re.split(r"[;,]", collateral_report)
re_split(cs) == SplitOn(cs, {";", ","}, <<>>, <<>>)

NonEmpty(cs) == cs # <<>>

\* [report.strip() for report in re.split(...) if report.strip()]
reports_of(collateral_report) ==
    LET parts == re_split(collateral_report)
    IN SelectSeq([p \in 1..Len(parts) |-> strip(parts[p])], NonEmpty)

\* the request dictionary of one security
BuildReq(sec, factor_date, report) ==
    LET base == << <<"security", PyInt(sec)>>,
                   <<"show_headers", PyStr(<<"T","r","u","e">>)>>,
                   <<"operation", PyStr(<<"A","s","s","e","t","s">>)>>,
                   <<"include_zero_balance", PyBool(FALSE)>> >>
        dated == IF factor_date # "None"
                 THEN Put(base, "factor_date", PyInt(202401)) ELSE base
    IN IF report # <<>>
       THEN Put(dated, "collateral_reports", PyStr(report)) ELSE dated

\* run_AssetRequest up to its dispatch loop: the checks of the arguments
\* and the list of request dictionaries
prepare(factor_date, collateral_report, nsec) ==
    LET reports == reports_of(collateral_report)
        fail(exc, text) ==
            [ok |-> FALSE, error |-> TableError(exc, text),
             report |-> <<>>, requests |-> <<>>]
        built(report) ==
            [ok |-> TRUE, error |-> EmptyFrame, report |-> report,
             requests |->
                 [j \in 1..nsec |-> BuildReq(j - 1, factor_date, report)]]
    IN IF factor_date = "str_bad"
       THEN fail("ValueError", <<"factor_date should be in YYYYMM format.">>)
       ELSE IF collateral_report = <<>> THEN built(<<>>)
       ELSE IF Len(reports) > 1
       THEN fail("ValueError", <<"Only one collateral report should be listed.">>)
       ELSE IF reports = <<>>
       THEN fail("IndexError", <<"list index out of range">>)
       ELSE built(reports[1])

Prepare(factor_date, collateral_report) ==
    /\ o_pc = "start"
    /\ LET r == prepare(factor_date, collateral_report, n_sec)
       IN IF r.ok
          THEN /\ formatted_collateral_report' = r.report
               /\ requests_json' = r.requests
               /\ o_pc' = "loop"
               /\ UNCHANGED o_result
          ELSE /\ o_result' = r.error
               /\ o_pc' = "rejected"
               /\ UNCHANGED <<formatted_collateral_report, requests_json>>
    /\ UNCHANGED <<n_sec, req_pos, dataframes, failed, batch_vars,
                   single_vars, session_vars>>
    /\ UNCHANGED call_vars

\* a dispatch loop that moves on to the next request while the call for
\* the current one is still polling
Dispatch_Overlap ==
    /\ o_pc = "loop"
    /\ \/ /\ req_pos < Len(requests_json)
          /\ s_pc = "idle"
          /\ UNCHANGED req_pos
       \/ /\ req_pos + 1 < Len(requests_json)
          /\ s_pc = "poll"
          /\ req_pos' = req_pos + 1
    /\ s_pc' = "attempt"
    /\ UNCHANGED <<parse_response, attempt, response, s_result, idle_polls,
                   throttled, slept, batch_vars, session_vars>>
    /\ UNCHANGED <<o_pc, n_sec, formatted_collateral_report, requests_json,
                   dataframes, failed, o_result>>
    /\ UNCHANGED call_vars

\* response = make_request(req, service, session, parse_response=True)
Dispatch ==
    /\ o_pc = "loop"
    /\ req_pos < Len(requests_json)
    /\ s_pc = "idle"
    /\ s_pc' = "attempt"
    /\ UNCHANGED <<parse_response, attempt, response, s_result, idle_polls,
                   throttled, slept, batch_vars, asset_vars, session_vars>>
    /\ UNCHANGED call_vars

\* the table of one security: data = response[...];
\* df = table_to_dataframe(data), or the exception the try block catches
extract(result, report) ==
    LET key == IF Len(report) > 0 THEN report ELSE Assets
    IN IF result.kind = "raise"
       THEN TableError(result.value[1], result.value[2])
       ELSE IF ~HasKey(result.value, key) THEN TableError("KeyError", key)
       ELSE table_to_dataframe(Get(result.value, key))

\* the rest of the try block once make_request returned or raised
Collect ==
    /\ o_pc = "loop"
    /\ s_pc \in {"returned", "raised"}
    /\ LET df == extract(s_result, formatted_collateral_report)
       IN IF df.kind = "df"
          THEN dataframes' = Append(dataframes, df) /\ UNCHANGED failed
          ELSE failed' = failed \cup {req_pos} /\ UNCHANGED dataframes
    /\ req_pos' = req_pos + 1
    /\ s_pc' = "idle"
    /\ attempt' = 0
    /\ response' = NoMsg
    /\ s_result' = NoResult
    /\ idle_polls' = 0
    /\ throttled' = 0
    /\ slept' = 0
    /\ UNCHANGED parse_response
    /\ UNCHANGED <<o_pc, n_sec, formatted_collateral_report, requests_json,
                   o_result, batch_vars, session_vars>>
    /\ UNCHANGED call_vars

\* df_agg = stack_dataframes(dataframes); return df_agg
Finish ==
    /\ o_pc = "loop"
    /\ req_pos = Len(requests_json)
    /\ s_pc = "idle"
    /\ o_result' = stack_dataframes(dataframes, PyNone, FALSE)
    /\ dataframes' = FramesAfter(dataframes, PyNone, FALSE)
    /\ o_pc' = "done"
    /\ UNCHANGED <<n_sec, formatted_collateral_report, requests_json,
                   req_pos, failed, batch_vars, single_vars, session_vars>>
    /\ UNCHANGED call_vars

\* a call of run_AssetRequest for a list of n_sec securities
AssetInit ==
    /\ BatchIdle
    /\ SingleIdle
    /\ sent = <<>>
    /\ wire = {}
    /\ o_pc = "start"
    /\ n_sec \in 0..MaxSec
    /\ formatted_collateral_report = <<>>
    /\ requests_json = <<>>
    /\ req_pos = 0
    /\ dataframes = <<>>
    /\ failed = {}
    /\ o_result = EmptyFrame
    /\ CallIdle

AssetNext ==
    \/ \E fd \in FactorDates, cr \in ReportInputs : Prepare(fd, cr)
    \/ Dispatch
    \/ Attempt
    \/ GiveUp
    \/ Poll
    \/ Handle
    \/ Sleep
    \/ Collect
    \/ Finish

SpecAsset == AssetInit /\ [][AssetNext]_vars

\* ------------------------------------------------------------------------
\* Calls of parse_value, table_to_dataframe and stack_dataframes on their
\* own
\* ------------------------------------------------------------------------
\* the characters of the short texts
ParseAlphabet == {"1", ".", "-", " ", "e", "n", "a", Sup2}

\* every text of at most MaxStrLen of these characters
ShortTexts == UNION {[1..len -> ParseAlphabet] : len \in 0..MaxStrLen}

\* longer texts, one or more for each check of parse_value
SampleTexts ==
    {
     \* null
     <<"n","u","l","l">>,
     \* None
     <<"N","o","n","e">>,
     \* true
     <<"t","r","u","e">>,
     \* TRUE
     <<"T","R","U","E">>,
     \* False
     <<"F","a","l","s","e">>,
     \* 123
     <<"1","2","3">>,
     \* 007
     <<"0","0","7">>,
     \* 1.50
     <<"1",".","5","0">>,
     \* -Infinity
     <<"-","I","n","f","i","n","i","t","y">>,
     \* NaN
     <<"N","a","N">>,
     \* 1e-2
     <<"1","e","-","2">>,
     \* 2024-02-29T10:00:00 (a leap day)
     <<"2","0","2","4","-","0","2","-","2","9","T","1","0",":","0","0",":","0","0">>,
     \* 2024-W09-4T10:00:00 (the same day by ISO week and weekday)
     <<"2","0","2","4","-","W","0","9","-","4","T","1","0",":","0","0",":","0","0">>,
     \* 2023-02-29T10:00:00 (no day of 2023)
     <<"2","0","2","3","-","0","2","-","2","9","T","1","0",":","0","0",":","0","0">>,
     \* 01/02/2024 03:04 PM
     <<"0","1","/","0","2","/","2","0","2","4"," ","0","3",":","0","4"," ","P","M">>,
     \* 1/2/2024  3:04 PM (fields of one digit, two blanks)
     <<"1","/","2","/","2","0","2","4"," "," ","3",":","0","4"," ","P","M">>,
     \* 01/02/2024 03:04 pm (the pm that the test for AM or PM does not see)
     <<"0","1","/","0","2","/","2","0","2","4"," ","0","3",":","0","4"," ","p","m">>,
     \* 13/02/2024 03:04 PM (no month)
     <<"1","3","/","0","2","/","2","0","2","4"," ","0","3",":","0","4"," ","P","M">>,
     \* ["1","2"]
     <<"[","\"","1","\"",",","\"","2","\"","]">>,
     \* ["1",["true","x"]]
     <<"[","\"","1","\"",",","[","\"","t","r","u","e","\"",",","\"","x","\"","]","]">>,
     \* ["²"]
     <<"[","\"",Sup2,"\"","]">>,
     \* [true,-1,null,1.5]
     <<"[","t","r","u","e",",","-","1",",","n","u","l","l",",","1",".","5","]">>,
     \* []
     <<"[","]">>,
     \* ["1"
     <<"[","\"","1","\"">>,
     \* "a"
     <<"\"","a","\"">>,
     \* abc
     <<"a","b","c">>
    }

\* the items of the lists handed to parse_value
ListItems ==
    {PyStr(<<>>), PyStr(<<"1">>), PyStr(<<"t","r","u","e">>), PyStr(<<"x">>),
     PyStr(<<Sup2>>), PyStr(<<"[","\"","1","\"","]">>)}

\* the values handed to parse_value: strings and lists of strings
ParseInputs ==
    {PyStr(cs) : cs \in ShortTexts \cup SampleTexts}
    \cup {PyList(items) :
             items \in UNION {[1..len -> ListItems] : len \in 0..MaxListLen}}

\* a call parse_value(arg)
CallParseValue ==
    /\ fn = "parse_value"
    /\ out = Unset
    /\ out' = parse_value(arg)
    /\ UNCHANGED <<fn, arg, batch_vars, single_vars, asset_vars, session_vars>>

\* the cells of the tables handed to table_to_dataframe
CellValues == {PyStr(<<"A">>), PyStr(<<"B">>)}

\* the rows: lists of at most MaxCols cells, and a row that is no list
RowValues ==
    {PyList(cells) :
        cells \in UNION {[1..len -> CellValues] : len \in 0..MaxCols}}
    \cup {PyStr(<<"x">>)}

\* the values handed to table_to_dataframe: lists of at most MaxRows rows,
\* and values that are no list
TableInputs ==
    {PyList(rows) : rows \in UNION {[1..len -> RowValues] : len \in 0..MaxRows}}
    \cup {PyStr(<<"x">>), PyNone, PyInt(1)}

\* a call table_to_dataframe(arg)
CallTableToDataframe ==
    /\ fn = "table_to_dataframe"
    /\ out = Unset
    /\ out' = table_to_dataframe(arg)
    /\ UNCHANGED <<fn, arg, batch_vars, single_vars, asset_vars, session_vars>>

\* the tables handed to stack_dataframes: over the columns A, B and C, with
\* one or two rows, and pd.DataFrame()
FrameValues ==
    {DataFrame(<<"A", "B">>, << <<PyInt(1), PyInt(2)>> >>),
     DataFrame(<<"A", "C">>, << <<PyInt(3), PyInt(4)>> >>),
     DataFrame(<<"B", "A">>, << <<PyInt(5), PyInt(6)>> >>),
     DataFrame(<<"A">>, << <<PyInt(7)>>, <<PyInt(8)>> >>),
     EmptyFrame}

\* the columns argument: None or a list of names
ColumnValues == {PyNone, PyList(<<"A", "B">>), PyList(<<"B", "A", "C">>)}

\* the arguments of stack_dataframes: at most MaxFrames tables
StackInputs ==
    [dataframes : UNION {[1..len -> FrameValues] : len \in 0..MaxFrames},
     columns : ColumnValues,
     strict : BOOLEAN]

\* a call stack_dataframes(dataframes, columns, strict)
CallStackDataframes ==
    /\ fn = "stack_dataframes"
    /\ out = Unset
    /\ out' = stack_dataframes(arg.dataframes, arg.columns, arg.strict)
    /\ arg' = [arg EXCEPT !.dataframes =
                  FramesAfter(arg.dataframes, arg.columns, arg.strict)]
    /\ UNCHANGED <<fn, batch_vars, single_vars, asset_vars, session_vars>>

\* one call of one of the three functions
CallInit ==
    /\ BatchIdle
    /\ SingleIdle
    /\ AssetIdle
    /\ sent = <<>>
    /\ wire = {}
    /\ \/ fn = "parse_value" /\ arg \in ParseInputs
       \/ fn = "table_to_dataframe" /\ arg \in TableInputs
       \/ fn = "stack_dataframes" /\ arg \in StackInputs
    /\ out = Unset

CallNext == CallParseValue \/ CallTableToDataframe \/ CallStackDataframes

SpecCalls == CallInit /\ [][CallNext]_vars

\* the correlation values a message of this batch's session may carry:
\* none, one assigned in this batch, or a foreign one
Cids == {NoCid} \cup 0..n

Next ==
    \/ Send
    \/ StartWait
    \/ Timeout
    \/ NextEvent
    \/ \E m \in Messages(Cids, ResultLists) : HandleMsg(m)
    \/ Resend
    \/ Return

Spec == BatchInit /\ [][Next]_vars

\* a poll during which the clock advances
Tick == NextEvent /\ now' > now

\* make_multiple_requests under a running interpreter and an advancing
\* clock: the call takes its next step whenever it has one (every statement
\* of the loop returns, session.nextEvent(1000) within its interval), and
\* of the polls of a call that goes on polling, some take time
SpecLive == Spec /\ WF_vars(Next) /\ SF_vars(Tick)

\* ------------------------------------------------------------------------
\* Properties of make_multiple_requests
\* ------------------------------------------------------------------------
Running == {"wait", "event", "sleep"}

Indices == 0..(n - 1)

\* the entries of responses for request i
Entries(i) == {p \in 1..Len(responses) : responses[p][1] = i}

\* C1: when make_multiple_requests returns, the list has one element per
\* request, element i is the outcome recorded for request i, and a success
\* outcome at position i carries _request_order = i, whatever the order in
\* which the outcomes were recorded.
C1_OrderedOutcomes ==
    b_pc = "returned" =>
        /\ b_result.kind = "return"
        /\ Len(b_result.value) = n
        /\ \A i \in Indices :
              /\ b_result.value[i + 1] = Get(responses, i)
              /\ b_result.value[i + 1].kind = "success" =>
                    b_result.value[i + 1].request_order = i

\* a batch of two returned whose second request was answered first, both
\* with a success of different content
C1_Witness ==
    /\ b_pc = "returned"
    /\ n = 2
    /\ responses[1][1] = 1
    /\ b_result.value[1].kind = "success"
    /\ b_result.value[2].kind = "success"
    /\ b_result.value[1].fields # b_result.value[2].fields

\* C2: from the moment the pending set exists, an index is pending exactly
\* when it has no recorded outcome; a call that returned has exactly one
\* success or failure outcome for every index; a call that raised raised
\* the timeout error.
C2_NoSilentDrop ==
    /\ b_pc \in Running \cup {"returned", "raised"} =>
          /\ pending \subseteq Indices
          /\ \A i \in Indices : (i \in pending) <=> (Entries(i) = {})
    /\ b_pc = "returned" =>
          \A i \in Indices :
              /\ Cardinality(Entries(i)) = 1
              /\ Get(responses, i).kind \in {"success", "failure"}
    /\ b_pc = "raised" =>
          b_result = [kind |-> "raise", value |-> <<"Request timed out">>]
    /\ Keys(responses) \subseteq Indices

\* a batch of two returned with one success and one failure
C2_Witness ==
    /\ b_pc = "returned"
    /\ n = 2
    /\ \E i, j \in Indices :
          /\ Get(responses, i).kind = "success"
          /\ Get(responses, j).kind = "failure"

\* C3 as stated: once the elapsed time exceeds timeout while an index is
\* pending, the pending set never becomes empty (so no outcome list is
\* returned).
C3_NoReturnAfterDeadline ==
    [][(b_pc \in Running /\ pending # {} /\ now - start_time > timeout)
          => pending' # {}]_vars

\* C3 as amended: when the loop is at the top of an iteration with the
\* elapsed time above timeout and an index pending, its next step raises the
\* timeout error and returns no list; the call returns only from the top of
\* the loop with the pending set empty.
C3_TimeoutAtLoopTop ==
    [][/\ (b_pc = "wait" /\ pending # {} /\ now - start_time > timeout)
            => /\ b_pc' = "raised"
               /\ b_result' = [kind |-> "raise",
                               value |-> <<"Request timed out">>]
       /\ b_pc' = "returned" /\ b_pc # "returned"
            => b_pc = "wait" /\ pending = {}]_vars

\* the call raised the timeout error with an outcome already recorded
C3_Witness ==
    /\ b_pc = "raised"
    /\ now - start_time > timeout
    /\ pending # {}
    /\ responses # <<>>

\* the response with a throttling error and correlation value c
ThrottleMsg(c) == Msg(c, "cmpResponse", "errorResponse", ErrThrottle, <<>>)

\* C4: handling a partial or full response with a throttling error for a
\* pending index i below the retry limit adds one to retry_counts[i],
\* records nothing and keeps i pending, and the request is then sent again
\* with correlation value i; at the limit (also when max_retries = 0) the
\* throttle-limit failure is recorded and i leaves the pending set.
\* retry_counts[i] never exceeds max_retries.
C4_ThrottleRetry ==
    [][/\ \A c \in DOMAIN corr_mapping :
             LET i == corr_mapping[c]
             IN (/\ b_pc = "event"
                 /\ i \in pending
                 /\ event_type \in {"PARTIAL_RESPONSE", "RESPONSE"}
                 /\ HandleMsg(ThrottleMsg(c)))
                => IF retry_counts[i] < max_retries
                   THEN /\ retry_counts'[i] = retry_counts[i] + 1
                        /\ i \in pending'
                        /\ responses' = responses
                        /\ b_pc' = "sleep"
                        /\ corr_id_int' = i
                   ELSE /\ retry_counts' = retry_counts
                        /\ i \notin pending'
                        /\ Get(responses', i) =
                             Failure(<<"Throttle limit reached after ",
                                       Digit(max_retries), " retries.">>)
                        /\ sent' = sent
       /\ b_pc = "sleep" =>
             /\ sent'[corr_id_int] = sent[corr_id_int] + 1
             /\ <<corr_id_int, corr_id_int>> \in wire'
             /\ wire' \subseteq {<<j, j>> : j \in Indices}
             /\ corr_id_int \in pending'
             /\ responses' = responses
       /\ \A i \in DOMAIN retry_counts' : retry_counts'[i] <= max_retries]_vars

\* a request was retried once and then hit the throttle limit
C4_Witness ==
    /\ branch = "throttle_limit"
    /\ max_retries = 1
    /\ \E i \in Indices :
          /\ retry_counts[i] = 1
          /\ sent[i] = 2
          /\ i \notin pending
          /\ Get(responses, i).text[1] = "Throttle limit reached after "

\* C10: handling a message without correlation id, or with a correlation
\* value not assigned in this batch, leaves the pending set, the outcomes
\* and the retry counters as they were, sends nothing and does not end the
\* call.
C10_ForeignIgnored ==
    [][b_pc = "event" =>
          \/ /\ UNCHANGED <<pending, responses, retry_counts, sent, wire>>
             /\ b_result' = b_result
             /\ b_pc' \in {"wait", "event"}
          \/ \A m \in Messages(Cids \ DOMAIN corr_mapping, ResultLists) :
                ~HandleMsg(m)]_vars

\* a foreign message was handled while a request was pending
C10_Witness ==
    /\ branch = "unknown_cid"
    /\ event_type = "RESPONSE"
    /\ pending # {}
    /\ b_pc \in Running

\* ------------------------------------------------------------------------
\* Properties of make_request
\* ------------------------------------------------------------------------
\* the number of times the request of the call was sent
Submissions(snt) == IF snt = <<>> THEN 0 ELSE snt[0]

BudgetError ==
    Raised("TimeoutError",
           <<"Failed to receive a valid response after multiple attempts.">>)

\* C5: make_request sends its request at most 3 times; every attempt after
\* a throttled one follows a wait of one second; when all 3 attempts were
\* throttled the call raises the error of the exhausted budget; a response
\* with a cmpExcelResponse body ends the call, on whatever attempt, by
\* returning the field mapping of that response: one entry for every field
\* name, holding the value of the last field of that name (passed through
\* parse_value when parse_response is set).
C5_ThrottleBudget ==
    [][/\ Submissions(sent') <= Retries
       /\ throttled' <= Retries
       /\ s_pc' = "attempt" => slept' = throttled' * ThrottleWait
       /\ Submissions(sent') <= attempt' + 1
       /\ (s_pc' = "raised" /\ throttled' = Retries) => s_result' = BudgetError
       /\ (s_pc = "handle" /\ response.body = "cmpExcelResponse")
             => LET fs == AllFields(response.results)
                IN /\ s_pc' = "returned"
                   /\ s_result'.kind = "return"
                   /\ Keys(s_result'.value) = {fs[p][1] : p \in 1..Len(fs)}
                   /\ \A p \in 1..Len(fs) :
                         (\A q \in (p + 1)..Len(fs) : fs[q][1] # fs[p][1])
                           => Get(s_result'.value, fs[p][1]) =
                                 IF parse_response THEN parse_value(fs[p][2])
                                 ELSE fs[p][2]
                   /\ sent' = sent]_vars

\* C6: a call in which 3 polls brought no response has ended with the error
\* of the exhausted budget.
C6_NoResponseBudget ==
    idle_polls >= Retries => s_pc = "raised" /\ s_result = BudgetError

\* C7: an error response whose message is not a throttling message makes
\* the next step of make_request raise an exception carrying that message,
\* without a wait and without another submission.
C7_ErrorFailsAtOnce ==
    [][(/\ s_pc = "handle"
        /\ response.body = "errorResponse"
        /\ response.message = ErrOther)
          => /\ s_pc' = "raised"
             /\ s_result' = Raised("Exception", ErrOther)
             /\ sent' = sent
             /\ slept' = slept
             /\ attempt' = attempt]_vars

\* the error arrived on the third attempt, after two throttled ones
C7_Witness ==
    /\ s_pc = "raised"
    /\ s_result = Raised("Exception", ErrOther)
    /\ attempt = 2
    /\ throttled = 2
    /\ Submissions(sent) = 3

\* ------------------------------------------------------------------------
\* Properties of run_AssetRequest
\* ------------------------------------------------------------------------
RECURSIVE RowCount(_)
RowCount(dfs) ==
    IF dfs = <<>> THEN 0 ELSE Len(Head(dfs).rows) + RowCount(Tail(dfs))

\* the rows of table number j of dataframes stand in agg, after the rows of
\* the tables before it, with every cell under the column of its name
RowsKept(agg, j) ==
    LET df == dataframes[j]
        offset == RowCount(SubSeq(dataframes, 1, j - 1))
    IN \A r \in 1..Len(df.rows) : \A c \in 1..Len(df.columns) :
          \E a \in 1..Len(agg.columns) :
             /\ agg.columns[a] = df.columns[c]
             /\ agg.rows[offset + r][a] = df.rows[r][c]

\* C8: whichever securities of a non-empty list fail, run_AssetRequest
\* returns a table: it holds the rows of the securities that succeeded, in
\* list order, and nothing else.
C8_PartialSuccess ==
    (o_pc = "done" /\ n_sec > 0) =>
        /\ o_result.kind = "df"
        /\ Len(dataframes) = n_sec - Cardinality(failed)
        /\ Len(o_result.rows) = RowCount(dataframes)
        /\ \A j \in 1..Len(dataframes) : RowsKept(o_result, j)

\* the names a collateral_report string lists: a name starts at a
\* character that is neither a separator nor a blank and has only blanks
\* between it and the separator (or the start of the string) before it
NameStarts(cr) ==
    {p \in 1..Len(cr) :
        /\ cr[p] \notin {",", ";", " "}
        /\ \A q \in 1..(p - 1) :
              (\A r \in q..(p - 1) : cr[r] \notin {",", ";"}) => cr[q] = " "}

\* the string without its separators
RECURSIVE Unseparated(_)
Unseparated(cr) ==
    IF cr = <<>> THEN <<>>
    ELSE IF Head(cr) \in {",", ";"} THEN Unseparated(Tail(cr))
    ELSE <<Head(cr)>> \o Unseparated(Tail(cr))

\* C9: a collateral_report string that lists more than one report makes
\* run_AssetRequest raise a ValueError before any request is sent; with
\* exactly one name the call goes on and every request built carries that
\* name.
C9_OneReport ==
    [][o_pc = "start" => \A fd \in FactorDates, cr \in ReportInputs :
          Prepare(fd, cr) =>
             /\ Cardinality(NameStarts(cr)) > 1 =>
                   /\ o_pc' = "rejected"
                   /\ o_result'.kind = "raise"
                   /\ o_result'.error[1] = "ValueError"
                   /\ fd # "str_bad" =>
                         o_result'.error[2] =
                            <<"Only one collateral report should be listed.">>
                   /\ sent' = <<>> /\ wire' = {}
                   /\ requests_json' = <<>>
             /\ (Cardinality(NameStarts(cr)) = 1 /\ fd # "str_bad") =>
                   /\ o_pc' = "loop"
                   /\ Len(requests_json') = n_sec
                   /\ \A j \in 1..n_sec :
                         Get(requests_json'[j], "collateral_reports") =
                            PyStr(strip(Unseparated(cr)))]_vars

\* the call ended with the error about more than one report; nothing was
\* sent
C9_Witness ==
    /\ o_pc = "rejected"
    /\ o_result.kind = "raise"
    /\ o_result.error[2] = <<"Only one collateral report should be listed.">>
    /\ n_sec > 0
    /\ sent = <<>>

\* ------------------------------------------------------------------------
\* Further properties of make_multiple_requests
\* ------------------------------------------------------------------------
\* the correlation values of the requests that have a recorded outcome
Settled == {c \in DOMAIN corr_mapping : corr_mapping[c] \in Keys(responses)}

\* C11: once an outcome is recorded for index i, no step overwrites or
\* removes it, changes retry_counts[i], sends request i again or makes i
\* pending again; and handling a message whose index is no longer pending
\* changes none of the pending set, the outcomes, the retry counters and the
\* requests sent.
C11_LateIgnored ==
    [][/\ \A i \in Keys(responses) :
             /\ HasKey(responses', i)
             /\ Get(responses', i) = Get(responses, i)
             /\ Cardinality({p \in 1..Len(responses') : responses'[p][1] = i}) = 1
             /\ retry_counts'[i] = retry_counts[i]
             /\ sent'[i] = sent[i]
             /\ i \notin pending'
       /\ b_pc = "event" =>
             \/ /\ UNCHANGED <<pending, responses, retry_counts, sent, wire>>
                /\ b_pc' \in {"wait", "event"}
             \/ \A m \in Messages(Settled, ResultLists) : ~HandleMsg(m)]_vars

\* a message for a request that already has its outcome was handled while
\* another request was still pending
C11_Witness ==
    /\ branch = "not_pending"
    /\ b_pc \in Running
    /\ responses # <<>>
    /\ pending # {}

\* the error messages that are no throttling messages
OtherErrors == {e \in ErrorMessages : ~Contains(LimitReached, e)}

\* the messages with correlation value c that end a request: a
\* RequestFailure, an error that is no throttling error, a well-formed
\* response, a response of unexpected shape, an unparseable one
FinalMessages(c) ==
    {Msg(c, "RequestFailure", "none", <<>>, <<>>),
     Msg(c, "cmpResponse", "otherJson", <<>>, <<>>),
     Msg(c, "cmpResponse", "invalid", <<>>, <<>>)}
    \cup {Msg(c, "cmpResponse", "errorResponse", e, <<>>) : e \in OtherErrors}
    \cup {Msg(c, "cmpResponse", "cmpExcelResponse", <<>>, r) : r \in ResultLists}

\* the outcome the text of C12 gives message m of request i
Matches(o, m, i) ==
    IF m.mtype = "RequestFailure"
    THEN o.kind = "failure" /\ o.text[1] = "RequestFailure: "
    ELSE IF m.body = "errorResponse"
    THEN o.kind = "failure" /\ o.text = m.message
    ELSE IF m.body = "cmpExcelResponse"
    THEN /\ o.kind = "success"
         /\ o.request_order = i
         /\ Keys(o.fields) =
               UNION {{m.results[r][f][1] : f \in 1..Len(m.results[r])} :
                         r \in 1..Len(m.results)}
         /\ \A r \in 1..Len(m.results) : \A f \in 1..Len(m.results[r]) :
               \/ Get(o.fields, m.results[r][f][1]) = m.results[r][f][2]
               \/ \E r2 \in r..Len(m.results) :
                     \E f2 \in 1..Len(m.results[r2]) :
                        /\ r2 > r \/ f2 > f
                        /\ m.results[r2][f2][1] = m.results[r][f][1]
    ELSE o.kind = "failure" /\ o.text # <<>>

\* C12: handling, for a pending index i, a RequestFailure message or, in a
\* partial or full response event, a non-throttling error, a well-formed
\* response or a response of unexpected or unparseable shape records exactly
\* one outcome for i of the matching kind, removes i from the pending set in
\* the same step, touches no other outcome and sends nothing.
C12_FinalOutcome ==
    [][b_pc = "event" =>
          \A c \in DOMAIN corr_mapping :
             LET i == corr_mapping[c]
             IN i \in pending =>
                \A m \in FinalMessages(c) :
                   (/\ \/ m.mtype = "RequestFailure"
                       \/ event_type \in {"PARTIAL_RESPONSE", "RESPONSE"}
                    /\ HandleMsg(m))
                   => /\ pending' = pending \ {i}
                      /\ Len(responses') = Len(responses) + 1
                      /\ SubSeq(responses', 1, Len(responses)) = responses
                      /\ responses'[Len(responses')][1] = i
                      /\ Matches(responses'[Len(responses')][2], m, i)
                      /\ UNCHANGED <<retry_counts, sent, wire>>
                      /\ b_pc' \in {"wait", "event"}]_vars

\* both kinds of outcome were recorded in one batch: the unparseable
\* response of one request and the field mapping of another, in which a
\* later result overwrote the field of an earlier one
C12_Witness ==
    /\ b_pc \in Running \cup {"returned"}
    /\ \E i, j \in Indices :
          /\ HasKey(responses, i) /\ HasKey(responses, j)
          /\ Get(responses, i) = Failure(<<"JSONDecodeError">>)
          /\ Get(responses, j).kind = "success"
          /\ Get(responses, j).fields =
                << << <<"f">>, PyStr(<<"3">>) >>, << <<"g">>, PyStr(<<"2">>) >> >>

\* C13: the pending set starts as 0..n-1 when the sending loop is done; no
\* later step adds an index to it (a throttle retry leaves it as it is); the
\* call returns only with the pending set empty, and with the pending set
\* empty at the top of the loop its only step is to return the outcomes.
C13_PendingShrinks ==
    [][/\ (b_pc = "send" /\ b_pc' = "wait") => pending' = 0..(n - 1)
       /\ b_pc \in Running => pending' \subseteq pending
       /\ b_pc \in {"returned", "raised"} => pending' = pending
       /\ (b_pc = "event" /\ b_pc' = "sleep") => pending' = pending
       /\ (b_pc # "returned" /\ b_pc' = "returned") => pending = {}
       /\ (b_pc # "raised" /\ b_pc' = "raised") => pending # {}
       /\ (b_pc = "wait" /\ pending = {}) =>
             /\ b_pc' = "returned"
             /\ b_result'.kind = "return"
             /\ Len(b_result'.value) = n]_vars

\* a batch of two returned, its pending set empty, after one of its requests
\* was retried and the other was not
C13_Witness ==
    /\ b_pc = "returned"
    /\ n = 2
    /\ pending = {}
    /\ \E i, j \in Indices : retry_counts[i] = 1 /\ retry_counts[j] = 0

\* C14: corr_mapping maps every correlation value to the index equal to
\* it, so no two requests share a value; it covers 0..n-1 once the sending
\* loop is done and never changes afterwards; every request ever sent,
\* first submission or throttle retry, went out as request i with value i.
C14_CorrelationFixed ==
    [][/\ \A c \in DOMAIN corr_mapping' : corr_mapping'[c] = c
       /\ \A c, d \in DOMAIN corr_mapping' :
             corr_mapping'[c] = corr_mapping'[d] => c = d
       /\ b_pc' # "send" => DOMAIN corr_mapping' = 0..(n - 1)
       /\ b_pc # "send" => corr_mapping' = corr_mapping
       /\ \A w \in wire' : w[2] = w[1] /\ corr_mapping'[w[2]] = w[1]
       /\ b_pc = "sleep" =>
             /\ sent'[corr_id_int] = sent[corr_id_int] + 1
             /\ wire' = wire
             /\ <<corr_id_int, corr_id_int>> \in wire']_vars

\* both requests of a batch were sent, one of them twice, under two
\* correlation values in all
C14_Witness ==
    /\ b_pc \in Running
    /\ n = 2
    /\ \E i \in Indices : sent[i] = 2
    /\ wire = {<<0, 0>>, <<1, 1>>}

\* ------------------------------------------------------------------------
\* Properties of parse_value
\* ------------------------------------------------------------------------
DecimalDigits == {"0", "1", "2", "3", "4", "5", "6", "7", "8", "9"}

\* a non-empty text of decimal digits
OnlyDigits(cs) == cs # <<>> /\ \A p \in 1..Len(cs) : cs[p] \in DecimalDigits

\* a non-empty text of characters that are digits for str.isdigit()
OnlyDigitLike(cs) ==
    cs # <<>> /\ \A p \in 1..Len(cs) : cs[p] \in DecimalDigits \cup {Sup2}

\* a decimal string: an optional sign, then digits with at most one point
PlainDecimal(cs) ==
    LET body == IF cs # <<>> /\ cs[1] \in {"-", "+"} THEN Tail(cs) ELSE cs
    IN /\ \A p \in 1..Len(body) : body[p] \in DecimalDigits \cup {"."}
       /\ \E p \in 1..Len(body) : body[p] \in DecimalDigits
       /\ Cardinality({p \in 1..Len(body) : body[p] = "."}) <= 1

\* the first exception among items, or the list of the items
ItemsOrRaise(items) ==
    LET bad == {p \in 1..Len(items) : items[p].t = "raise"}
    IN IF bad = {} THEN PyList(items)
       ELSE items[CHOOSE p \in bad : \A q \in bad : p <= q]

RECURSIVE ByPrecedence(_, _)
\* the value the checks give in their order of precedence.  As claimed: a
\* text of decimal digits is an integer, a decimal string is a float, and
\* what no check accepts stays as it is.  As amended: a text that
\* str.isdigit() accepts is an integer when it has decimal digits only and
\* raises ValueError otherwise, every text float() accepts is a float, and
\* an embedded JSON list with an item that raises stays as it is.
ByPrecedence(value, claimed) ==
    IF value.t = "list"
    THEN ItemsOrRaise([p \in 1..Len(value.v) |->
                          ByPrecedence(value.v[p], claimed)])
    ELSE IF value.t # "str"
    THEN IF float(value).ok THEN float(value).val ELSE value
    ELSE LET cs == value.v
             js == json_loads(cs)
         IN IF cs \in {<<>>, <<"n","u","l","l">>, <<"N","o","n","e">>}
            THEN PyNone
            ELSE IF lower(cs) = <<"t","r","u","e">> THEN PyBool(TRUE)
            ELSE IF lower(cs) = <<"f","a","l","s","e">> THEN PyBool(FALSE)
            ELSE IF OnlyDigits(cs) THEN PyInt(IntOf(cs))
            ELSE IF ~claimed /\ OnlyDigitLike(cs) THEN PyRaise("ValueError")
            ELSE IF float_str(cs).ok /\ (claimed => PlainDecimal(cs))
            THEN float_str(cs).val
            ELSE IF Contains(<<"T">>, cs) /\ fromisoformat_ok(cs)
            THEN PyDateTime(cs)
            ELSE IF (Contains(<<"A","M">>, cs) \/ Contains(<<"P","M">>, cs))
                    /\ strptime_ok(cs)
            THEN PyDateTime(cs)
            ELSE IF js.ok /\ js.val.t = "list"
            THEN LET items == ItemsOrRaise(
                                 [p \in 1..Len(js.val.v) |->
                                     ByPrecedence(js.val.v[p], claimed)])
                 IN IF ~claimed /\ items.t = "raise" THEN value ELSE items
            ELSE value

\* parse_value has returned or raised
ParseDone == fn = "parse_value" /\ out # Unset

\* C15 as stated: parse_value gives the value of the first check, in the
\* order null texts, list, booleans, digit-only text, decimal string, ISO
\* timestamp, AM/PM timestamp, embedded JSON list, that accepts its input,
\* and the input itself when none does.
C15_PrecedenceAsStated == ParseDone => out = ByPrecedence(arg, TRUE)

\* C15 as amended: the same order of checks, where the integer check takes
\* every text str.isdigit() accepts and raises ValueError unless its digits
\* are decimal, the float check takes every text float() accepts (blanks
\* around it, exponents, inf, infinity and nan too), and an embedded JSON
\* list of which an item raises is returned as the original string.  In
\* particular "true" gives True, "123" gives 123, "" gives null and
\* ["1","2"] as a text gives [1, 2].
C15_PrecedenceOfChecks ==
    /\ ParseDone => out = ByPrecedence(arg, FALSE)
    /\ parse_value(PyStr(<<"t","r","u","e">>)) = PyBool(TRUE)
    /\ parse_value(PyStr(<<"1","2","3">>)) = PyInt(123)
    /\ parse_value(PyStr(<<>>)) = PyNone
    /\ parse_value(PyStr(<<"[","\"","1","\"",",","\"","2","\"","]">>))
          = PyList(<<PyInt(1), PyInt(2)>>)

\* the text ["1",["true","x"]] was parsed down to its items: an integer and
\* a list of a boolean and a string
C15_Witness ==
    /\ ParseDone
    /\ arg = PyStr(<<"[","\"","1","\"",",","[","\"","t","r","u","e","\"",",",
                     "\"","x","\"","]","]">>)
    /\ out = PyList(<<PyInt(1), PyList(<<PyBool(TRUE), PyStr(<<"x">>)>>)>>)

\* C16: parse_value raises no exception, whatever string or list of strings
\* it is given.
C16_NoException == ParseDone => out.t # "raise"

\* ------------------------------------------------------------------------
\* Properties of table_to_dataframe and stack_dataframes
\* ------------------------------------------------------------------------
\* table_to_dataframe has returned or raised
TableDone == fn = "table_to_dataframe" /\ out # Unset

\* a list of lists with at least two rows
ListOfRows(v) ==
    /\ v.t = "list"
    /\ Len(v.v) >= 2
    /\ \A r \in 1..Len(v.v) : v.v[r].t = "list"

\* C17: table_to_dataframe never raises: for a list of lists with at least
\* two rows it returns the table whose column names are row 0 and whose
\* rows are rows 1.. in order, and for every other input the table without
\* columns and rows.
C17_NeverRaises ==
    TableDone =>
       /\ out.kind = "df"
       /\ IF ListOfRows(arg)
          THEN /\ out.columns = arg.v[1].v
               /\ Len(out.rows) = Len(arg.v) - 1
               /\ \A r \in 1..Len(out.rows) :
                     \A c \in 1..Len(arg.v[r + 1].v) :
                        out.rows[r][c] = arg.v[r + 1].v[c]
          ELSE out = EmptyFrame

\* stack_dataframes has returned or raised
StackDone == fn = "stack_dataframes" /\ out # Unset

RECURSIVE AllColumns(_)
\* the column names of the tables, one table after the other
AllColumns(dfs) ==
    IF dfs = <<>> THEN <<>> ELSE Head(dfs).columns \o AllColumns(Tail(dfs))

RECURSIVE FirstSeen(_, _)
\* the names of cols from position p on that occur at no earlier position
FirstSeen(cols, p) ==
    IF p > Len(cols) THEN <<>>
    ELSE IF \E q \in 1..(p - 1) : cols[q] = cols[p] THEN FirstSeen(cols, p + 1)
    ELSE <<cols[p]>> \o FirstSeen(cols, p + 1)

RECURSIVE RowsBefore(_, _)
\* the number of rows of the first j - 1 tables
RowsBefore(dfs, j) ==
    IF j <= 1 THEN 0 ELSE Len(dfs[j - 1].rows) + RowsBefore(dfs, j - 1)

\* a null cell
IsNull(x) == x.t \in {"NA", "NaN", "None"}

\* agg holds the rows of the tables dfs in input order, each cell under the
\* column of its name and a null under the columns its table lacks
Stacked(agg, dfs) ==
    /\ Len(agg.rows) = RowsBefore(dfs, Len(dfs) + 1)
    /\ \A j \in 1..Len(dfs) : \A r \in 1..Len(dfs[j].rows) :
          LET row == agg.rows[RowsBefore(dfs, j) + r]
          IN /\ Len(row) = Len(agg.columns)
             /\ \A a \in 1..Len(agg.columns) :
                   IF \E c \in 1..Len(dfs[j].columns) :
                         dfs[j].columns[c] = agg.columns[a]
                   THEN \E c \in 1..Len(dfs[j].columns) :
                           /\ dfs[j].columns[c] = agg.columns[a]
                           /\ row[a] = dfs[j].rows[r][c]
                   ELSE IsNull(row[a])

\* C18: stack_dataframes without a column list and with strict = false
\* returns a table whose columns are the union of the tables' columns in
\* order of first appearance and whose rows are the tables' rows in input
\* order, with a null in every cell of a column the row's table lacks.
\* (a step property: the tables are read as they are handed to the call,
\* which adds the missing columns to them)
C18_UnionAndFill ==
    [][(CallStackDataframes /\ arg.columns = PyNone /\ ~arg.strict) =>
          /\ out'.kind = "df"
          /\ out'.columns = FirstSeen(AllColumns(arg.dataframes), 1)
          /\ Stacked(out', arg.dataframes)]_vars

\* the set of the names of cols
NameSet(cols) == {cols[p] : p \in 1..Len(cols)}

\* the target columns of a call: the list given, or all columns of the
\* tables
Target(a) ==
    IF a.columns = PyNone THEN NameSet(AllColumns(a.dataframes))
    ELSE NameSet(a.columns.v)

\* C19: with strict = true, stack_dataframes raises the schema-mismatch
\* error and returns no table whenever the column set of some table differs
\* from the target column set; without a column list the target is the
\* union of all columns, so two tables with different column sets make it
\* raise.
C19_StrictMismatch ==
    (StackDone /\ arg.strict) =>
       /\ (\E j \in 1..Len(arg.dataframes) :
              NameSet(arg.dataframes[j].columns) # Target(arg))
          => /\ out.kind = "raise"
             /\ out.error =
                   <<"ValueError",
                     <<"Dataframe columns do not match the specified columns.">>>>
             /\ out.rows = <<>>
             /\ out.columns = <<>>
       /\ (/\ arg.columns = PyNone
           /\ \E j, k \in 1..Len(arg.dataframes) :
                 NameSet(arg.dataframes[j].columns)
                    # NameSet(arg.dataframes[k].columns))
          => out.kind = "raise"

\* the strict call on a table over A, B and then one over A, C, without a
\* column list, raised: the mismatch is in the second table
C19_Witness ==
    /\ StackDone
    /\ arg.strict
    /\ arg.columns = PyNone
    /\ Len(arg.dataframes) = 2
    /\ arg.dataframes[1].columns = <<"A", "B">>
    /\ arg.dataframes[2].columns = <<"A", "C">>
    /\ out.kind = "raise"

\* ------------------------------------------------------------------------
\* Termination of make_multiple_requests
\* ------------------------------------------------------------------------
\* the call is over: it returned the outcomes in request order, or raised
\* the timeout error
Terminated ==
    \/ /\ b_pc = "returned"
       /\ b_result = [kind |-> "return",
                      value |-> ordered_responses(responses, n)]
    \/ /\ b_pc = "raised"
       /\ b_result = [kind |-> "raise", value |-> <<"Request timed out">>]

\* C20: every call of make_multiple_requests ends, by returning the ordered
\* outcome list or by raising the timeout error, whatever the session
\* sends, as long as the polls return and the clock advances.
C20_Terminates == <>Terminated

\* the call timed out with a request still pending that was throttled up to
\* its retry limit, the last message handled being a foreign one
C20_Witness ==
    /\ b_pc = "raised"
    /\ b_result = [kind |-> "raise", value |-> <<"Request timed out">>]
    /\ max_retries > 0
    /\ \E i \in pending : retry_counts[i] = max_retries
    /\ branch = "unknown_cid"

\* ------------------------------------------------------------------------
\* Order of the steps of make_multiple_requests
\* ------------------------------------------------------------------------
\* C21: make_multiple_requests submits all its requests, in index order,
\* before it polls the session: while it is sending, the requests sent are
\* those below the loop index, each sent once, and no event has been
\* polled and no message handled; from the first poll on every request has
\* been sent.
C21_SendBeforePoll ==
    /\ b_pc = "send" =>
          /\ DOMAIN sent = 0..(i_send - 1)
          /\ \A i \in DOMAIN sent : sent[i] = 1
          /\ event_type = "none"
          /\ branch = "none"
          /\ responses = <<>>
    /\ (b_pc \in Running \/ event_type # "none" \/ branch # "none") =>
          DOMAIN sent = 0..(n - 1)

\* a message has been handled in a batch of MaxReq requests
C21_Witness ==
    /\ n = MaxReq
    /\ branch # "none"
    /\ DOMAIN sent = 0..(n - 1)

\* ------------------------------------------------------------------------
\* Order of the requests of run_AssetRequest
\* ------------------------------------------------------------------------
\* the calls of make_request whose result the loop has taken: each left a
\* table or a failure
Collected == Len(dataframes) + Cardinality(failed)

\* the call of make_request under way has returned or raised
CallOver == s_pc \in {"returned", "raised"}

\* the requests submitted whose call of make_request is not over
Outstanding ==
    Cardinality(DOMAIN sent) - Collected - (IF CallOver THEN 1 ELSE 0)

\* C22: run_AssetRequest submits the requests one at a time in the order of
\* the security list: the requests submitted so far are the first ones of
\* the list, the request after them is not submitted before the calls for
\* all of them are over, and at most one submitted request has a call that
\* is not over.
C22_SerialDispatch ==
    o_pc \in {"loop", "done"} =>
       /\ \E m \in 0..n_sec : DOMAIN sent = 0..(m - 1)
       /\ Outstanding \in {0, 1}
       /\ Outstanding = 1 => s_pc \in {"poll", "handle", "sleep", "attempt"}
       /\ \A k \in DOMAIN sent : k < req_pos \/ (k = req_pos /\ s_pc # "idle")

\* the request of the second security is out while the call for the first
\* one, which was sent more than once, is over
C22_Witness ==
    /\ o_pc = "loop"
    /\ req_pos = 1
    /\ s_pc = "poll"
    /\ DOMAIN sent = {0, 1}
    /\ sent[0] > 1
    /\ Collected = 1

\* C23: the retry wait stalls the whole loop: from the state in which a
\* throttled message for index i has been accepted for a retry, the only
\* step is the one that lets retry_delay pass and sends request i again;
\* it handles no message, records no outcome, removes no index from the
\* pending set and does not test the deadline, whatever the time is.
C23_RetryStalls ==
    [][b_pc = "sleep" =>
          /\ corr_id_int \in pending
          /\ branch = "retry"
          /\ now' = now + retry_delay
          /\ sent' = [sent EXCEPT ![corr_id_int] = @ + 1]
          /\ UNCHANGED <<responses, pending, retry_counts, branch, ev_left,
                         event_type, b_result, start_time>>
          /\ b_pc' \in {"wait", "event"}]_vars

\* a request was sent again after its retry wait although the deadline had
\* passed during the wait
C23_Witness ==
    /\ b_pc \in {"wait", "event"}
    /\ branch = "retry"
    /\ now - start_time > timeout
    /\ \E i \in pending : sent[i] = 2 /\ retry_counts[i] = 1

\* ------------------------------------------------------------------------
\* Submissions and retry counters of make_multiple_requests
\* ------------------------------------------------------------------------
\* the sending loop is over
AllSent == b_pc \in Running \cup {"returned", "raised"}

\* C24 as stated: in every state after the initial submissions request i
\* has been sent 1 + retry_counts[i] times, hence at most 1 + max_retries
\* times.
C24_SentIsOnePlusRetries ==
    AllSent =>
       \A i \in Indices :
          /\ sent[i] = 1 + retry_counts[i]
          /\ sent[i] <= 1 + max_retries

\* C24: after the initial submissions request i has been sent
\* 1 + retry_counts[i] times, except during the retry wait of i, when its
\* counter has been incremented and the request not yet sent again and it
\* has been sent retry_counts[i] times; in every state it has been sent at
\* most 1 + max_retries times.
C24_SentFollowsRetries ==
    AllSent =>
       \A i \in Indices :
          /\ sent[i] = IF b_pc = "sleep" /\ corr_id_int = i
                       THEN retry_counts[i]
                       ELSE 1 + retry_counts[i]
          /\ retry_counts[i] <= max_retries
          /\ sent[i] <= 1 + max_retries

\* the call is over with every request of a batch of two sent twice
C24_Witness ==
    /\ b_pc \in {"returned", "raised"}
    /\ n = 2
    /\ max_retries = 1
    /\ \A i \in Indices : sent[i] = 2 /\ retry_counts[i] = 1

\* ------------------------------------------------------------------------
\* Isolation of the indices of make_multiple_requests
\* ------------------------------------------------------------------------
\* the step leaves the outcome, the retry counter, the pending status and
\* the submissions of index j as they are
Untouched(j) ==
    /\ (j \in Keys(responses')) = (j \in Keys(responses))
    /\ j \in Keys(responses) => Get(responses', j) = Get(responses, j)
    /\ retry_counts'[j] = retry_counts[j]
    /\ (j \in pending') = (j \in pending)
    /\ sent'[j] = sent[j]

\* the index a message with correlation value c belongs to
IndexOf(c) ==
    IF c = NoCid \/ c \notin DOMAIN corr_mapping THEN NoIndex
    ELSE corr_mapping[c]

\* C25: handling a message whose correlation value maps to index i leaves
\* the outcome, the retry counter and the pending status of every other
\* index as they are and sends no request; the resubmission that follows
\* an accepted retry sends request i and no other.
C25_IndexIsolation ==
    [][/\ b_pc = "event" =>
             \/ UNCHANGED <<responses, retry_counts, pending, sent>>
             \/ LET touched == {j \in Indices : ~Untouched(j)}
                IN \A c \in Cids :
                      \/ touched \subseteq {IndexOf(c)}
                      \/ \A m \in Messages({c}, ResultLists) : ~HandleMsg(m)
       /\ b_pc = "event" => sent' = sent
       /\ b_pc = "sleep" =>
             \A j \in Indices \ {corr_id_int} : Untouched(j)]_vars

\* request 0 has its outcome and request 1, retried once since, is pending
C25_Witness ==
    /\ n = 2
    /\ Keys(responses) = {0}
    /\ Get(responses, 0).kind = "success"
    /\ pending = {1}
    /\ retry_counts[0] = 0 /\ retry_counts[1] = 1
    /\ sent[0] = 1 /\ sent[1] = 2

\* the well-formed response with correlation value c and the results r
DataMsg(c, r) == Msg(c, "cmpResponse", "cmpExcelResponse", <<>>, r)

\* C26: the outcome of index i is fixed by the first terminal message
\* handled for i: a well-formed response for a pending index, in a
\* PARTIAL_RESPONSE event as in a RESPONSE event, records the success made
\* of its own fields and removes i from the pending set; a recorded outcome
\* is never changed afterwards, so the fields of a later partial or final
\* message for i are not merged into it.
C26_FirstTerminalWins ==
    [][/\ (b_pc = "event" /\ event_type \in {"PARTIAL_RESPONSE", "RESPONSE"}) =>
             \A c \in DOMAIN corr_mapping :
                corr_mapping[c] \in pending =>
                   \A r \in ResultLists :
                      HandleMsg(DataMsg(c, r)) =>
                         /\ HasKey(responses', corr_mapping[c])
                         /\ Get(responses', corr_mapping[c]) =
                               Success(corr_mapping[c], Flatten(<<>>, r))
                         /\ corr_mapping[c] \notin pending'
       /\ \A i \in Keys(responses) :
             /\ i \notin pending
             /\ i \notin pending'
             /\ HasKey(responses', i)
             /\ Get(responses', i) = Get(responses, i)]_vars

\* a request got its outcome from a message of a PARTIAL_RESPONSE event and
\* left the pending set while another request is still pending
C26_Witness ==
    /\ event_type = "PARTIAL_RESPONSE"
    /\ branch = "success"
    /\ pending # {}
    /\ \E i \in Keys(responses) :
          /\ Get(responses, i).kind = "success"
          /\ i \notin pending

====
